---- MODULE Spec2Model ----
(***************************************************************************)
(* A model of the chunking engine of context-mcp: the section tree         *)
(* builder, the hierarchical merge engine, the markdown drivers (readme,   *)
(* changelog), the MDX driver's oversized-section splitting, chunk ids,    *)
(* the chunking configuration schema and the OpenAPI parsing context.      *)
(*                                                                         *)
(* Text is modelled as a sequence of tokens.  A token is an indivisible    *)
(* run of characters: a newline, a code fence (three backticks), a         *)
(* markdown heading marker with its title ("## B"), a changelog version    *)
(* heading ("## 1.0.N") or a run of n prose characters.  The length of a   *)
(* string is the sum of the lengths of its tokens, so every size           *)
(* comparison of the code is made on real character counts.  A prose       *)
(* token carries in "h" the number of the line it was written on, which    *)
(* tells two equally long runs of prose apart.                             *)
(***************************************************************************)
EXTENDS Integers, Sequences, FiniteSets, TLC

VARIABLES
    \* ---- markdown / MDX drivers: one document being chunked
    doc,        \* the document text (a token string)
    nLines,     \* number of lines written into doc so far
    cfg,        \* the ChunkConfig in force
    phase,      \* "input" while the document is written, "done" after a run
    merged,     \* FlatSections returned by mergeHierarchicalSections
    sections,   \* FlatSections after splitLargeFlatSection
    chunks,     \* DocChunks returned by the driver
    prevMax,    \* maxChunkSize of the previous run on the same document (0: none)
    prevCount,  \* number of chunks of that previous run
    \* ---- configuration loading
    rawChunking,   \* the "chunking" object of config.yaml as parsed (or "absent")
    cfgPhase,      \* "raw" | "rejected" | "loaded" | "chunking"
    chunkConfig,   \* the ChunkConfig handed to the chunkers
    \* ---- a driver run over the files of one source
    pending,    \* file paths still to be processed, in directory order
    allChunks,  \* ids of the DocChunks emitted so far in this run
    driver,     \* "markdown" | "mdx"
    \* ---- OpenAPI driver
    ctx,        \* the ParsingContext of the call in progress
    call,       \* arguments of the call in progress
    pc,         \* "idle" | "created" | "mapped"
    out,        \* chunks (source URLs) returned by the last completed call
    history,    \* all completed calls: <<arguments, result>>
    nCalls,     \* number of calls started
    \* ---- a walk over the schemas of an OpenAPI document
    schemas,    \* components.schemas of the document: name -> SchemaObject
    callStack,  \* the call stack of the walk, innermost call last
    walk,       \* "none" | "running" | "returned"
    deepest,    \* the largest depth argument any call of the walk received
    \* ---- text cleaning
    cleaned     \* the text returned by the cleaning function run on doc

mdVars == <<doc, nLines, cfg, phase, merged, sections, chunks, prevMax, prevCount>>
cfVars == <<rawChunking, cfgPhase, chunkConfig>>
idVars == <<pending, allChunks, driver>>
scVars == <<schemas, callStack, walk, deepest>>
txVars == <<cleaned>>
oaVars == <<ctx, call, pc, out, history, nCalls, scVars, txVars>>
vars == <<mdVars, cfVars, idVars, oaVars>>

-----------------------------------------------------------------------------
(* Bounds of the model *)

MaxLines == 5
MaxFiles == 3
MaxCalls == 3

-----------------------------------------------------------------------------
(* Tokens and strings *)

NL == [k |-> "nl", n |-> 1, h |-> ""]
Fence == [k |-> "fence", n |-> 3, h |-> ""]
Text(n, id) == [k |-> "text", n |-> n, h |-> id]
Heading(level, title) == [k |-> "head", n |-> level, h |-> title]
VersionHead(i) == [k |-> "ver", n |-> i, h |-> ""]
NumberedHeading(number, title) == [k |-> "num", n |-> number, h |-> title]
\* n spaces or tabs
Space(n) == [k |-> "space", n |-> n, h |-> ""]
\* "import m from 'm';" and "export const a = 1;", told apart by the line id
ImportStatement(id) == [k |-> "import", n |-> 18, h |-> id]
ExportStatement(id) == [k |-> "export", n |-> 19, h |-> id]
\* "---"
Dashes == [k |-> "dashes", n |-> 3, h |-> ""]
\* A self-closing JSX tag on a line of text, <Icon icon="check" />
JsxTag == [k |-> "jsx", n |-> 21, h |-> ""]

\* Number of characters of a token.  "## B" is level + 1 + |title| characters;
\* a version heading "## 1.0.N" is 8 characters.
TokLen(t) ==
    CASE t.k = "nl" -> 1
      [] t.k = "fence" -> 3
      [] t.k = "text" -> t.n
      [] t.k = "head" -> t.n + 1 + Len(t.h)
      [] t.k = "ver" -> 8
      [] t.k = "num" -> 6 + (IF t.h = "" THEN 0 ELSE 1 + Len(t.h))
      [] t.k \in {"space", "import", "export", "dashes", "jsx"} -> t.n

RECURSIVE StrLen(_)
StrLen(s) == IF s = <<>> THEN 0 ELSE TokLen(Head(s)) + StrLen(Tail(s))

IsSpace(t) == t.k \in {"nl", "space"}

\* String.prototype.trim
RECURSIVE TrimLeft(_)
TrimLeft(s) == IF s # <<>> /\ IsSpace(Head(s)) THEN TrimLeft(Tail(s)) ELSE s

RECURSIVE TrimRight(_)
TrimRight(s) ==
    IF s # <<>> /\ IsSpace(s[Len(s)]) THEN TrimRight(SubSeq(s, 1, Len(s) - 1)) ELSE s

Trim(s) == TrimRight(TrimLeft(s))

\* Array.prototype.join
RECURSIVE Join(_, _)
Join(parts, sep) ==
    IF parts = <<>> THEN <<>>
    ELSE IF Len(parts) = 1 THEN parts[1]
    ELSE parts[1] \o sep \o Join(Tail(parts), sep)

\* content.split('\n'): always at least one (possibly empty) line
RECURSIVE SplitLinesFrom(_, _)
SplitLinesFrom(s, cur) ==
    IF s = <<>> THEN <<cur>>
    ELSE IF Head(s).k = "nl" THEN <<cur>> \o SplitLinesFrom(Tail(s), <<>>)
    ELSE SplitLinesFrom(Tail(s), Append(cur, Head(s)))

SplitLines(s) == SplitLinesFrom(s, <<>>)

\* Number of code fences in a string
RECURSIVE FenceCount(_)
FenceCount(s) ==
    IF s = <<>> THEN 0
    ELSE (IF Head(s).k = "fence" THEN 1 ELSE 0) + FenceCount(Tail(s))

Tokens(s) == {s[i] : i \in 1..Len(s)}

-----------------------------------------------------------------------------
(* section-utils: code block handling *)

\* Index of the first fence of s at or after position i, 0 if none
RECURSIVE NextFence(_, _)
NextFence(s, i) ==
    IF i > Len(s) THEN 0
    ELSE IF s[i].k = "fence" THEN i
    ELSE NextFence(s, i + 1)

\* splitByCodeBlocks: the regex ```[\s\S]*?``` pairs each fence with the next
\* one; text between code blocks, and after the last one, is a part of its own.
RECURSIVE SplitCodeFrom(_, _)
SplitCodeFrom(s, lastIndex) ==
    LET open == NextFence(s, lastIndex)
        close == IF open = 0 THEN 0 ELSE NextFence(s, open + 1)
    IN IF close = 0
       THEN IF lastIndex <= Len(s) THEN <<SubSeq(s, lastIndex, Len(s))>> ELSE <<>>
       ELSE (IF open > lastIndex THEN <<SubSeq(s, lastIndex, open - 1)>> ELSE <<>>)
            \o <<SubSeq(s, open, close)>>
            \o SplitCodeFrom(s, close + 1)

splitByCodeBlocks(content) == SplitCodeFrom(content, 1)

IsCodeBlock(s) ==
    /\ Len(s) >= 2
    /\ s[1].k = "fence"
    /\ s[Len(s)].k = "fence"
    /\ FenceCount(s) = 2

-----------------------------------------------------------------------------
(* section-utils: the section tree builder *)

\* The tree of Sections is kept as the list of its nodes in document order,
\* each naming its parent (0 for a root): section.children is the list of the
\* nodes naming it, in order.
IntroThreshold == 50

Node(heading, level, content, parent) ==
    [heading |-> heading, level |-> level, content |-> content, parent |-> parent]

\* line.match(/^(#{1,6})\s+(.+)$/)
IsHeadingLine(line) == Len(line) = 1 /\ line[1].k = "head" /\ line[1].n \in 1..6

JoinLines(lines) == Join(lines, <<NL>>)

\* while (stack.length > 0 && stack[stack.length - 1].level >= level) stack.pop()
PopsOnlyDeeper(topLevel, level) == topLevel > level
Pops(topLevel, level) == topLevel >= level

RECURSIVE PopStack(_, _, _)
PopStack(nodes, stack, level) ==
    IF stack # <<>> /\ Pops(nodes[stack[Len(stack)]].level, level)
    THEN PopStack(nodes, SubSeq(stack, 1, Len(stack) - 1), level)
    ELSE stack

\* stack[stack.length - 1].section.content = currentContent.join('\n').trim()
SaveContent(st) ==
    IF st.stack # <<>> /\ st.cur # <<>>
    THEN [st.nodes EXCEPT ![st.stack[Len(st.stack)]].content = Trim(JoinLines(st.cur))]
    ELSE st.nodes

\* The intro pseudo-section, pushed to the roots when long enough
IntroNodes(st, heading) ==
    IF ~st.saw /\ st.intro # <<>> /\ StrLen(Trim(JoinLines(st.intro))) > IntroThreshold
    THEN <<Node(heading, 0, Trim(JoinLines(st.intro)), 0)>>
    ELSE <<>>

\* One iteration of the loop over the lines
TreeStep(st, line) ==
    IF IsHeadingLine(line)
    THEN LET level == line[1].n
             \* the intro is pushed to the roots before any heading section exists
             saved == IntroNodes(st, "Introduction") \o SaveContent(st)
             popped == PopStack(saved, st.stack, level)
             parent == IF popped # <<>> THEN popped[Len(popped)] ELSE 0
             nodes2 == Append(saved, Node(line[1].h, level, <<>>, parent))
         IN [nodes |-> nodes2, stack |-> Append(popped, Len(nodes2)),
             cur |-> <<>>, intro |-> st.intro, saw |-> TRUE]
    ELSE IF st.saw
         THEN [st EXCEPT !.cur = Append(st.cur, line)]
         ELSE [st EXCEPT !.intro = Append(st.intro, line)]

RECURSIVE TreeScan(_, _)
TreeScan(st, lines) ==
    IF lines = <<>> THEN st ELSE TreeScan(TreeStep(st, Head(lines)), Tail(lines))

parseIntoTree(content) ==
    LET st == TreeScan([nodes |-> <<>>, stack |-> <<>>, cur |-> <<>>,
                        intro |-> <<>>, saw |-> FALSE], SplitLines(content))
    IN SaveContent(st) \o IntroNodes(st, "Documentation")

Children(nodes, i) ==
    LET idx == {j \in 1..Len(nodes) : nodes[j].parent = i}
        RECURSIVE Sorted(_)
        Sorted(S) == IF S = {} THEN <<>>
                     ELSE LET m == CHOOSE x \in S : \A y \in S : x <= y
                          IN <<m>> \o Sorted(S \ {m})
    IN Sorted(idx)

Roots(nodes) == Children(nodes, 0)

-----------------------------------------------------------------------------
(* section-utils: the hierarchical merge engine *)

\* A FlatSection.  "via" is not a field of the code's type: it records which
\* branch of the engine emitted the section ("leaf": case 1, "whole": case 2,
\* "own": the own content of a too-large section, "small": case 4,
\* "batch": flushBatch).
FlatSection(heading, level, content, breadcrumbs, via) ==
    [heading |-> heading, level |-> level, content |-> content,
     breadcrumbs |-> breadcrumbs, via |-> via]

RECURSIVE getSectionSize(_, _)
getSectionSize(nodes, i) ==
    LET kids == Children(nodes, i)
        RECURSIVE Sum(_)
        Sum(k) == IF k > Len(kids) THEN 0 ELSE getSectionSize(nodes, kids[k]) + Sum(k + 1)
    IN StrLen(nodes[i].content) + Sum(1)

Clamp(x, lo, hi) == IF x < lo THEN lo ELSE IF x > hi THEN hi ELSE x

\* parts.join('\n\n') of: the heading line (unless empty or "Introduction"), the
\* own content (unless empty), and every child flattened
RECURSIVE flattenSection(_, _)
flattenSection(nodes, i) ==
    LET s == nodes[i]
        kids == Children(nodes, i)
        head == IF s.heading # "" /\ s.heading # "Introduction"
                THEN << <<Heading(Clamp(s.level, 1, 4), s.heading)>> >> ELSE <<>>
        body == IF s.content # <<>> THEN <<s.content>> ELSE <<>>
    IN Join(head \o body \o [k \in 1..Len(kids) |-> flattenSection(nodes, kids[k])],
            <<NL, NL>>)

\* batch.map(s => s.heading).filter(Boolean).join(' / ') || 'Combined Section'
RECURSIVE JoinHeadings(_)
JoinHeadings(hs) ==
    IF hs = <<>> THEN ""
    ELSE IF Len(hs) = 1 THEN hs[1]
    ELSE hs[1] \o " / " \o JoinHeadings(Tail(hs))

MinLevel(nodes, batch) ==
    CHOOSE l \in {nodes[batch[k]].level : k \in 1..Len(batch)} :
        \A k \in 1..Len(batch) : l <= nodes[batch[k]].level

flushBatch(nodes, batch, breadcrumbs) ==
    IF batch = <<>> THEN <<>>
    ELSE IF Len(batch) = 1
    THEN << FlatSection(nodes[batch[1]].heading, nodes[batch[1]].level,
                        flattenSection(nodes, batch[1]), breadcrumbs, "batch") >>
    ELSE LET headings == SelectSeq([k \in 1..Len(batch) |-> nodes[batch[k]].heading],
                                   LAMBDA h : h # "")
             mergedHeading == IF JoinHeadings(headings) = "" THEN "Combined Section"
                              ELSE JoinHeadings(headings)
         IN << FlatSection(mergedHeading, MinLevel(nodes, batch),
                  Join([k \in 1..Len(batch) |-> flattenSection(nodes, batch[k])], <<NL, NL>>),
                  breadcrumbs, "batch") >>

\* if (selfSize >= config.minChunkSize / 2): the division is exact (a float)
EmitsOwnContentAlways(selfSize, config) == TRUE
EmitsOwnContent(selfSize, config) == 2 * selfSize >= config.minChunkSize

\* if (childSize >= config.minChunkSize): the child is processed on its own
RecursedDirectlyNever(childSize, config) == FALSE
RecursedDirectly(childSize, config) == childSize >= config.minChunkSize

\* Case 4: if (selfSize > 0 || (section.children && section.children.length > 0))
KeptAnywayNever(selfSize, kids) == FALSE
KeptAnyway(selfSize, kids) == selfSize > 0 \/ kids # <<>>

\* section.heading ? [...breadcrumbs, section.heading] : breadcrumbs
newBreadcrumbsUnchanged(breadcrumbs, heading) == breadcrumbs
newBreadcrumbs(breadcrumbs, heading) ==
    IF heading # "" THEN Append(breadcrumbs, heading) ELSE breadcrumbs

\* The pending batch is flushed before the child is processed on its own
ProcessThenFlush(flushed, processed) == processed \o flushed
FlushThenProcess(flushed, processed) == flushed \o processed

RECURSIVE processSection(_, _, _, _)
RECURSIVE batchChildren(_, _, _, _, _, _, _)

\* The loop of case 3 over the children, from child number k on, with the
\* pending batch and its size
batchChildren(nodes, kids, k, batch, batchSize, breadcrumbs, config) ==
    IF k > Len(kids) THEN flushBatch(nodes, batch, breadcrumbs)
    ELSE LET child == kids[k]
             childSize == getSectionSize(nodes, child)
         IN IF RecursedDirectly(childSize, config)
            THEN FlushThenProcess(flushBatch(nodes, batch, breadcrumbs),
                                  processSection(nodes, child, breadcrumbs, config))
                 \o batchChildren(nodes, kids, k + 1, <<>>, 0, breadcrumbs, config)
            ELSE IF batchSize + childSize <= config.idealChunkSize
            THEN batchChildren(nodes, kids, k + 1, Append(batch, child),
                               batchSize + childSize, breadcrumbs, config)
            ELSE flushBatch(nodes, batch, breadcrumbs)
                 \o batchChildren(nodes, kids, k + 1, <<child>>, childSize,
                                  breadcrumbs, config)

processSection(nodes, i, breadcrumbs, config) ==
    LET s == nodes[i]
        kids == Children(nodes, i)
        totalSize == getSectionSize(nodes, i)
        selfSize == StrLen(s.content)
    IN IF selfSize >= config.minChunkSize /\ kids = <<>>
       THEN << FlatSection(s.heading, s.level, s.content, breadcrumbs, "leaf") >>
       ELSE IF totalSize <= config.maxChunkSize /\ totalSize >= config.minChunkSize
       THEN << FlatSection(s.heading, s.level, flattenSection(nodes, i),
                           breadcrumbs, "whole") >>
       ELSE IF totalSize > config.maxChunkSize
       THEN (IF EmitsOwnContent(selfSize, config)
             THEN << FlatSection(s.heading, s.level, s.content, breadcrumbs, "own") >>
             ELSE <<>>)
            \o batchChildren(nodes, kids, 1, <<>>, 0,
                   newBreadcrumbs(breadcrumbs, s.heading), config)
       ELSE IF KeptAnyway(selfSize, kids)
       THEN << FlatSection(s.heading, s.level, flattenSection(nodes, i),
                           breadcrumbs, "small") >>
       ELSE <<>>

mergeHierarchicalSections(nodes, config) ==
    LET roots == Roots(nodes)
        RECURSIVE Each(_)
        Each(k) == IF k > Len(roots) THEN <<>>
                   ELSE processSection(nodes, roots[k], <<>>, config) \o Each(k + 1)
    IN Each(1)

-----------------------------------------------------------------------------
(* markdown chunker: the README strategy *)

\* The loop of splitLargeFlatSection over the parts: greedy packing up to
\* maxChunkSize; a chunk closed in the loop is kept only when its trimmed
\* length reaches minChunkSize, the last one when it reaches minChunkSize / 2.
RECURSIVE PackParts(_, _, _, _, _)
PackParts(section, parts, currentChunk, chunkIndex, config) ==
    LET named(ix) == IF ix = 0 THEN section.heading
                     ELSE section.heading \o " (continued)"
        piece(ix) == [section EXCEPT !.heading = named(ix), !.content = Trim(currentChunk)]
    IN IF parts = <<>>
       THEN IF 2 * StrLen(Trim(currentChunk)) >= config.minChunkSize
            THEN <<piece(chunkIndex)>> ELSE <<>>
       ELSE IF StrLen(currentChunk) + StrLen(Head(parts)) <= config.maxChunkSize
       THEN PackParts(section, Tail(parts), currentChunk \o Head(parts), chunkIndex, config)
       ELSE IF StrLen(Trim(currentChunk)) >= config.minChunkSize
       THEN <<piece(chunkIndex)>>
            \o PackParts(section, Tail(parts), Head(parts), chunkIndex + 1, config)
       ELSE PackParts(section, Tail(parts), Head(parts), chunkIndex, config)

splitLargeFlatSection(section, config) ==
    IF StrLen(section.content) <= config.maxChunkSize THEN <<section>>
    ELSE LET result == PackParts(section, splitByCodeBlocks(section.content), <<>>, 0, config)
         IN IF result # <<>> THEN result ELSE <<section>>

RECURSIVE SplitAll(_, _)
SplitAll(flat, config) ==
    IF flat = <<>> THEN <<>>
    ELSE splitLargeFlatSection(Head(flat), config) \o SplitAll(Tail(flat), config)

\* sections.filter(s => s.content.length >= chunkConfig.minChunkSize / 2)
ValidSections(secs, config) ==
    SelectSeq(secs, LAMBDA s : 2 * StrLen(s.content) >= config.minChunkSize)

\* buildHeading: the last breadcrumb of more than 3 characters that is neither
\* 'Introduction' nor 'Documentation', then the section's own heading;
\* The characters of heading from position i that equal mark
At(heading, i, mark) ==
    /\ i + Len(mark) - 1 <= Len(heading)
    /\ SubSeq(heading, i, i + Len(mark) - 1) = mark

\* The first position >= i of heading that holds the character c, 0 if none
RECURSIVE IndexFrom(_, _, _)
IndexFrom(heading, c, i) ==
    IF i > Len(heading) THEN 0
    ELSE IF At(heading, i, c) THEN i
    ELSE IndexFrom(heading, c, i + 1)

\* .replace(/`([^`]+)`/g, '$1'), .replace(/\*\*([^*]+)\*\*/g, '$1') and
\* .replace(/\*([^*]+)\*/g, '$1'): c is the character the mark is made of
RECURSIVE StripPairs(_, _, _, _)
StripPairs(heading, i, mark, c) ==
    IF i > Len(heading) THEN ""
    ELSE LET k == IndexFrom(heading, c, i + Len(mark))
         IN IF At(heading, i, mark) /\ k > i + Len(mark) /\ At(heading, k, mark)
            THEN SubSeq(heading, i + Len(mark), k - 1)
                 \o StripPairs(heading, k + Len(mark), mark, c)
            ELSE SubSeq(heading, i, i) \o StripPairs(heading, i + 1, mark, c)

\* .replace(/\[([^\]]+)\]\([^)]+\)/g, '$1')
RECURSIVE StripLinks(_, _)
StripLinks(heading, i) ==
    IF i > Len(heading) THEN ""
    ELSE LET j == IndexFrom(heading, "]", i + 1)
             k == IndexFrom(heading, ")", j + 2)
         IN IF /\ At(heading, i, "[") /\ j > i + 1
               /\ At(heading, j + 1, "(") /\ k > j + 2
            THEN SubSeq(heading, i + 1, j - 1) \o StripLinks(heading, k + 1)
            ELSE SubSeq(heading, i, i) \o StripLinks(heading, i + 1)

\* .replace(/\s+/g, ' ') on a heading, which holds no newline
RECURSIVE CollapseSpaces(_, _)
CollapseSpaces(heading, i) ==
    IF i > Len(heading) THEN ""
    ELSE IF At(heading, i, " ") /\ At(heading, i + 1, " ")
    THEN CollapseSpaces(heading, i + 1)
    ELSE SubSeq(heading, i, i) \o CollapseSpaces(heading, i + 1)

\* .trim() on a string of characters
RECURSIVE TrimString(_)
TrimString(heading) ==
    IF At(heading, 1, " ") THEN TrimString(SubSeq(heading, 2, Len(heading)))
    ELSE IF heading # "" /\ At(heading, Len(heading), " ")
    THEN TrimString(SubSeq(heading, 1, Len(heading) - 1))
    ELSE heading

\* The character that opens and closes a code span: a string of this module
\* cannot hold a backtick, headings are written with an apostrophe in its place
Backtick == "'"

\* cleanHeading: inline code, bold, italic and links are unwrapped in this
\* order, white space is normalized
cleanHeading(heading) ==
    LET code == StripPairs(heading, 1, Backtick, Backtick)
        bold == StripPairs(code, 1, "**", "*")
        italic == StripPairs(bold, 1, "*", "*")
        links == StripLinks(italic, 1)
    IN TrimString(CollapseSpaces(links, 1))

\* A heading of a changelog entry (/^\d+\.\d+\.\d+/) is not among the
\* headings of these documents
MinBreadcrumbLength == 3

buildHeading(section, contextName) ==
    LET meaningful == SelectSeq(section.breadcrumbs,
                          LAMBDA b : /\ b # "" /\ b # "Introduction"
                                     /\ b # "Documentation"
                                     /\ Len(b) > MinBreadcrumbLength)
        first == IF meaningful # <<>> THEN <<meaningful[Len(meaningful)]>> ELSE <<>>
        parts == IF section.heading # "" /\ section.heading # "Introduction"
                 THEN Append(first, cleanHeading(section.heading)) ELSE first
    IN IF parts = <<>> THEN contextName \o " Documentation"
       ELSE IF Len(parts) = 1 THEN parts[1]
       ELSE parts[1] \o ": " \o parts[2]

\* map((section, index) => ({ id: `${contextName}/readme#${index}`, ... }))
DocChunks(secs, contextName, kind) ==
    [i \in 1..Len(secs) |->
        [id |-> contextName \o "/" \o kind \o "#" \o ToString(i - 1),
         heading |-> buildHeading(secs[i], contextName),
         content |-> secs[i].content]]

\* The README pipeline up to, and including, the chunk records
parseReadme(content, contextName, config) ==
    LET tree == parseIntoTree(content)
        flat == mergeHierarchicalSections(tree, config)
        secs == SplitAll(flat, config)
    IN [merged |-> flat, sections |-> secs,
        chunks |-> DocChunks(ValidSections(secs, config), contextName, "readme")]

-----------------------------------------------------------------------------
(* markdown chunker: the changelog strategy *)

\* A changelog DocChunk; chunks.length at the time of the push gives the id
ChangelogChunk(chunkList, contextName, heading, content, version) ==
    [id |-> contextName \o "/changelog#" \o ToString(Len(chunkList)),
     heading |-> heading, content |-> content, version |-> version]

VersionName(v) == "1.0." \o ToString(v)

\* Positions of the matches of versionRegex: a version heading at a line start
VersionMatches(s) ==
    {i \in 1..Len(s) : s[i].k = "ver" /\ (i = 1 \/ s[i - 1].k = "nl")}

\* parts: one per version heading, from the heading up to the next one, trimmed;
\* the text before the first version heading belongs to no part
VersionParts(s) ==
    LET M == VersionMatches(s)
        RECURSIVE From(_)
        From(i) ==
            LET later == {j \in M : j > i}
                next == IF later = {} THEN Len(s) + 1
                        ELSE CHOOSE j \in later : \A x \in later : j <= x
            IN <<[version |-> s[i].n, content |-> Trim(SubSeq(s, i, next - 1))]>>
               \o (IF later = {} THEN <<>> ELSE From(next))
    IN IF M = {} THEN <<>> ELSE From(CHOOSE j \in M : \A x \in M : j <= x)

\* The heading of a piece: an oversized entry keeps "Version x" for all of its
\* pieces (numbered = FALSE); the pieces of a batch are numbered "(Part n)",
\* except a last piece that is also the first
PieceHeading(base, numbered, partIndex, last) ==
    IF ~numbered \/ (last /\ partIndex = 0) THEN base
    ELSE base \o " (Part " \o ToString(partIndex + 1) \o ")"

\* The loops of parseChangelog and flushChangelogBatch over the sub-parts of an
\* over-long text: a piece is pushed only when its trimmed length reaches
\* minChunkSize.
RECURSIVE PackChangelog(_, _, _, _, _, _, _, _, _)
PackChangelog(chunkList, subParts, current, partIndex, base, numbered, version, contextName, config) ==
    IF subParts = <<>>
    THEN IF StrLen(Trim(current)) >= config.minChunkSize
         THEN Append(chunkList, ChangelogChunk(chunkList, contextName,
                         PieceHeading(base, numbered, partIndex, TRUE),
                         Trim(current), version))
         ELSE chunkList
    ELSE IF StrLen(current) + StrLen(Head(subParts)) <= config.maxChunkSize
    THEN PackChangelog(chunkList, Tail(subParts), current \o Head(subParts), partIndex,
                       base, numbered, version, contextName, config)
    ELSE IF StrLen(Trim(current)) >= config.minChunkSize
    THEN PackChangelog(Append(chunkList, ChangelogChunk(chunkList, contextName,
                           PieceHeading(base, numbered, partIndex, FALSE),
                           Trim(current), version)),
                       Tail(subParts), Head(subParts), partIndex + 1,
                       base, numbered, version, contextName, config)
    ELSE PackChangelog(chunkList, Tail(subParts), Head(subParts), partIndex,
                       base, numbered, version, contextName, config)

flushChangelogBatch(batch, chunkList, contextName, config) ==
    LET mergedContent == Join([k \in 1..Len(batch) |-> batch[k].content], <<NL, NL>>)
        versions == [k \in 1..Len(batch) |-> batch[k].version]
        base == IF Len(versions) > 1
                THEN "Versions " \o VersionName(versions[Len(versions)]) \o " - "
                     \o VersionName(versions[1])
                ELSE "Version " \o VersionName(versions[1])
    IN IF StrLen(mergedContent) > config.maxChunkSize
       THEN PackChangelog(chunkList, splitByCodeBlocks(mergedContent), <<>>, 0,
                          base, TRUE, versions[1], contextName, config)
       ELSE Append(chunkList, ChangelogChunk(chunkList, contextName, base,
                                             mergedContent, versions[1]))

FlushIfPending(batch, chunkList, contextName, config) ==
    IF batch # <<>> THEN flushChangelogBatch(batch, chunkList, contextName, config)
    ELSE chunkList

\* An entry longer than maxChunkSize is split and pushed at once; the pending
\* batch of earlier small entries is left pending
OversizedEntry(part, batch, chunkList, contextName, config) ==
    PackChangelog(chunkList, splitByCodeBlocks(part.content), <<>>, 0,
                  "Version " \o VersionName(part.version), FALSE, part.version,
                  contextName, config)

\* else if (batchSize + part.content.length <= chunkConfig.idealChunkSize)
JoinsChangelogBatchNever(batchSize, size, config) == FALSE
JoinsChangelogBatch(batchSize, size, config) == batchSize + size <= config.idealChunkSize

\* The loop of parseChangelog over the parts
RECURSIVE ChangelogLoop(_, _, _, _, _, _)
ChangelogLoop(parts, batch, batchSize, chunkList, contextName, config) ==
    IF parts = <<>> THEN FlushIfPending(batch, chunkList, contextName, config)
    ELSE LET part == Head(parts)
             size == StrLen(part.content)
         IN IF size > config.maxChunkSize
            THEN ChangelogLoop(Tail(parts), batch, batchSize,
                     OversizedEntry(part, batch, chunkList, contextName, config),
                     contextName, config)
            ELSE IF size >= config.minChunkSize
            THEN LET flushed == FlushIfPending(batch, chunkList, contextName, config)
                 IN ChangelogLoop(Tail(parts), <<>>, 0,
                        Append(flushed, ChangelogChunk(flushed, contextName,
                            "Version " \o VersionName(part.version), part.content,
                            part.version)),
                        contextName, config)
            ELSE IF JoinsChangelogBatch(batchSize, size, config)
            THEN ChangelogLoop(Tail(parts), Append(batch, part), batchSize + size,
                               chunkList, contextName, config)
            ELSE ChangelogLoop(Tail(parts), <<part>>, size,
                               FlushIfPending(batch, chunkList, contextName, config),
                               contextName, config)

parseChangelog(content, contextName, config) ==
    LET parts == VersionParts(content)
    IN IF parts = <<>>
       THEN \* no version heading: return parseReadme(...) (chunks without a version)
            LET readme == parseReadme(content, contextName, config).chunks
            IN [c \in 1..Len(readme) |->
                  [id |-> readme[c].id, heading |-> readme[c].heading,
                   content |-> readme[c].content, version |-> 0]]
       ELSE ChangelogLoop(parts, <<>>, 0, <<>>, contextName, config)

-----------------------------------------------------------------------------
(* text utilities and the MDX chunker *)

\* Length of the run of newlines starting at position i
RECURSIVE NewlineRun(_, _)
NewlineRun(s, i) ==
    IF i <= Len(s) /\ s[i].k = "nl" THEN 1 + NewlineRun(s, i + 1) ELSE 0

\* .replace(/\n{4,}/g, '\n\n\n').replace(/\n{3,}/g, '\n\n'): every run of three or
\* more newlines becomes two
RECURSIVE CollapseNewlines(_, _)
CollapseNewlines(s, i) ==
    IF i > Len(s) THEN <<>>
    ELSE LET run == NewlineRun(s, i)
         IN IF run >= 3 THEN <<NL, NL>> \o CollapseNewlines(s, i + run)
            ELSE <<s[i]>> \o CollapseNewlines(s, i + 1)

\* First position at or after i that holds neither a space nor a tab
RECURSIVE SkipSpaces(_, _)
SkipSpaces(s, i) ==
    IF i <= Len(s) /\ s[i].k = "space" THEN SkipSpaces(s, i + 1) ELSE i

\* .replace(/[ \t]+$/gm, ''): spaces and tabs that run up to the end of a line
\* or of the string are removed
RECURSIVE StripTrailingSpaces(_, _)
StripTrailingSpaces(s, i) ==
    IF i > Len(s) THEN <<>>
    ELSE LET j == SkipSpaces(s, i)
         IN IF j > i /\ (j > Len(s) \/ s[j].k = "nl")
            THEN StripTrailingSpaces(s, j)
            ELSE <<s[i]>> \o StripTrailingSpaces(s, i + 1)

\* normalizeWhitespace: newline runs are collapsed first, trailing spaces are
\* stripped next, the ends are trimmed last
normalizeWhitespace(content) ==
    Trim(StripTrailingSpaces(CollapseNewlines(content, 1), 1))

\* removeJsxTags: every <Upper...> tag is removed, self-closing or not
removeJsxTags(content) == SelectSeq(content, LAMBDA t : t.k # "jsx")

\* cleanMdxContent on text without carriage returns, frontmatter,
\* import/export lines and wrapper, accordion, card, callout or step
\* components: only normalizeWhitespace acts, other JSX tags stay
cleanMdxContent(content) == normalizeWhitespace(content)

\* finalCleanup on text without carriage returns
finalCleanup(content) == normalizeWhitespace(removeJsxTags(content))

\* content.split(/\n\n+/)
RECURSIVE SplitParagraphsFrom(_, _, _)
SplitParagraphsFrom(s, i, cur) ==
    IF i > Len(s) THEN <<cur>>
    ELSE LET run == NewlineRun(s, i)
         IN IF run >= 2 THEN <<cur>> \o SplitParagraphsFrom(s, i + run, <<>>)
            ELSE SplitParagraphsFrom(s, i + 1, Append(cur, s[i]))

SplitParagraphs(s) == SplitParagraphsFrom(s, 1, <<>>)

\* The loop over the paragraphs of a text part longer than maxSize:
\* <<chunks pushed, paraChunk left>>
RECURSIVE PackParagraphs(_, _, _)
PackParagraphs(paragraphs, paraChunk, maxSize) ==
    IF paragraphs = <<>> THEN [pushed |-> <<>>, rest |-> paraChunk]
    ELSE LET para == Head(paragraphs)
         IN IF StrLen(paraChunk) + StrLen(para) + 2 > maxSize
            THEN LET r == PackParagraphs(Tail(paragraphs), para, maxSize)
                 IN [pushed |-> (IF Trim(paraChunk) # <<>> THEN <<Trim(paraChunk)>> ELSE <<>>)
                                \o r.pushed,
                     rest |-> r.rest]
            ELSE PackParagraphs(Tail(paragraphs),
                     (IF paraChunk # <<>> THEN paraChunk \o <<NL, NL>> ELSE <<>>) \o para,
                     maxSize)

\* The loop of splitOversizedSection over the text and code parts
RECURSIVE PackOversized(_, _, _)
PackOversized(parts, currentChunk, maxSize) ==
    IF parts = <<>>
    THEN IF Trim(currentChunk) # <<>> THEN <<Trim(currentChunk)>> ELSE <<>>
    ELSE LET part == Head(parts)
             closed == IF Trim(currentChunk) # <<>> THEN <<Trim(currentChunk)>> ELSE <<>>
         IN IF StrLen(part) > maxSize
            THEN LET kept == IF Trim(currentChunk) # <<>> THEN <<>> ELSE currentChunk
                 IN IF IsCodeBlock(part)
                    THEN closed \o <<part>> \o PackOversized(Tail(parts), kept, maxSize)
                    ELSE LET r == PackParagraphs(SplitParagraphs(part), <<>>, maxSize)
                         IN closed \o r.pushed
                            \o PackOversized(Tail(parts),
                                   IF Trim(r.rest) # <<>> THEN r.rest ELSE kept, maxSize)
            ELSE IF StrLen(currentChunk) + StrLen(part) > maxSize
            THEN closed \o PackOversized(Tail(parts), part, maxSize)
            ELSE PackOversized(Tail(parts), currentChunk \o part, maxSize)

splitOversizedSection(content, maxSize) ==
    LET result == PackOversized(splitByCodeBlocks(content), <<>>, maxSize)
    IN IF result # <<>> THEN result ELSE <<content>>

\* cleanedContent.split(/^(?=## )/m): a new section starts at every line that
\* begins with "## "
SectionStarts(s) ==
    {i \in 2..Len(s) : s[i].k = "head" /\ s[i].n = 2 /\ s[i - 1].k = "nl"}

RECURSIVE SplitSectionsFrom(_, _)
SplitSectionsFrom(s, from) ==
    LET later == {j \in SectionStarts(s) : j > from}
        next == IF later = {} THEN Len(s) + 1
                ELSE CHOOSE j \in later : \A x \in later : j <= x
    IN <<SubSeq(s, from, next - 1)>>
       \o (IF later = {} THEN <<>> ELSE SplitSectionsFrom(s, next))

SplitSections(s) == IF s = <<>> THEN <<s>> ELSE SplitSectionsFrom(s, 1)

\* section.match(/^##\s+(.+)$/m): the title of the first "## " line, else
\* 'Introduction'
SectionHeading(section) ==
    LET hits == {i \in 1..Len(section) :
                    section[i].k = "head" /\ section[i].n = 2
                    /\ (i = 1 \/ section[i - 1].k = "nl")}
    IN IF hits = {} THEN "Introduction"
       ELSE section[CHOOSE i \in hits : \A x \in hits : i <= x].h

MinSectionLength == 100

\* chunkIndex++ in the id of a pushed chunk
SameIndex(chunkIndex) == chunkIndex
NextIndex(chunkIndex) == chunkIndex + 1

\* chunks.push({ id: `${doc.slug}#${chunkIndex++}`, heading, content }) on
\* the pair of chunks and chunkIndex that the loop of chunkDocument carries
Push(chunkList, slug, heading, content) ==
    [chunks |-> Append(chunkList.chunks,
                    [id |-> slug \o "#" \o ToString(chunkList.chunkIndex),
                     heading |-> heading, content |-> content]),
     chunkIndex |-> NextIndex(chunkList.chunkIndex)]

\* The sub-chunks of an oversized section that are pushed: those of trimmed
\* length >= minChunkSize, named "(Part i)" by their position among all
RECURSIVE PushParts(_, _, _, _, _, _)
PushParts(chunkList, subChunks, i, heading, slug, config) ==
    IF i > Len(subChunks) THEN chunkList
    ELSE IF StrLen(Trim(subChunks[i])) < config.minChunkSize
    THEN PushParts(chunkList, subChunks, i + 1, heading, slug, config)
    ELSE PushParts(
            Push(chunkList, slug,
                IF Len(subChunks) > 1
                THEN heading \o " (Part " \o ToString(i) \o ")" ELSE heading,
                subChunks[i]),
            subChunks, i + 1, heading, slug, config)

\* Positions of the matches of /^###\s+(\d+)[\.:\)]\s*(.*)$/gm
NumberedMatches(s) ==
    {i \in 1..Len(s) : s[i].k = "num" /\ (i = 1 \/ s[i - 1].k = "nl")}

MinExampleLength == 100

\* The examples of splitNumberedExamples before its final test: one per
\* numbered heading, from the heading up to the next one, trimmed, kept when
\* longer than 100 characters
RECURSIVE ExamplesFrom(_, _)
ExamplesFrom(s, i) ==
    LET later == {j \in NumberedMatches(s) : j > i}
        next == IF later = {} THEN Len(s) + 1
                ELSE CHOOSE j \in later : \A x \in later : j <= x
        exampleContent == Trim(SubSeq(s, i, next - 1))
        example == [number |-> s[i].n,
                    title |-> IF s[i].h # "" THEN s[i].h
                              ELSE "Example " \o ToString(s[i].n),
                    content |-> exampleContent]
    IN (IF StrLen(exampleContent) > MinExampleLength THEN <<example>> ELSE <<>>)
       \o (IF later = {} THEN <<>> ELSE ExamplesFrom(s, next))

\* splitNumberedExamples: <<>> stands for null
splitNumberedExamples(sectionContent) ==
    LET M == NumberedMatches(sectionContent)
    IN IF Cardinality(M) < 2 THEN <<>>
       ELSE LET examples == ExamplesFrom(sectionContent,
                                CHOOSE j \in M : \A x \in M : j <= x)
            IN IF Len(examples) >= 2 THEN examples ELSE <<>>

getContentBeforeNumberedExamples(sectionContent) ==
    LET M == NumberedMatches(sectionContent)
    IN IF M = {} THEN <<>>
       ELSE Trim(SubSeq(sectionContent, 1, (CHOOSE j \in M : \A x \in M : j <= x) - 1))

\* introContent.replace(/^##\s+.+\n*/m, ''): the first "## " line goes, with
\* the newlines after it
RemoveSectionHeading(s) ==
    LET hits == {i \in 1..Len(s) :
                    s[i].k = "head" /\ s[i].n = 2 /\ (i = 1 \/ s[i - 1].k = "nl")}
    IN IF hits = {} THEN s
       ELSE LET i == CHOOSE x \in hits : \A y \in hits : x <= y
            IN SubSeq(s, 1, i - 1) \o SubSeq(s, i + 1 + NewlineRun(s, i + 1), Len(s))

MinExampleIntro == 30
MaxExampleIntro == 300

\* The sub-chunks of an oversized example that are pushed
RECURSIVE PushExampleParts(_, _, _, _, _, _)
PushExampleParts(chunkList, subChunks, i, heading, slug, config) ==
    IF i > Len(subChunks) THEN chunkList
    ELSE IF StrLen(Trim(subChunks[i])) < config.minChunkSize
    THEN PushExampleParts(chunkList, subChunks, i + 1, heading, slug, config)
    ELSE PushExampleParts(
            Push(chunkList, slug,
                IF Len(subChunks) > 1
                THEN heading \o " (Part " \o ToString(i) \o ")" ELSE heading,
                finalCleanup(subChunks[i])),
            subChunks, i + 1, heading, slug, config)

\* Priority 1: the loop over the numbered examples of a section
RECURSIVE PushExamples(_, _, _, _, _, _)
PushExamples(chunkList, examples, sectionHeading, introText, slug, config) ==
    IF examples = <<>> THEN chunkList
    ELSE LET example == Head(examples)
             exampleHeading == sectionHeading \o ": " \o example.title
             chunkContent ==
                 <<Heading(2, sectionHeading), NL, NL>>
                 \o (IF StrLen(introText) > MinExampleIntro
                        /\ StrLen(introText) < MaxExampleIntro
                     THEN introText \o <<NL, NL>> ELSE <<>>)
                 \o example.content
             pushed ==
                 IF StrLen(chunkContent) > config.maxChunkSize
                 THEN PushExampleParts(chunkList,
                          splitOversizedSection(chunkContent, config.maxChunkSize),
                          1, exampleHeading, slug, config)
                 ELSE Push(chunkList, slug,
                exampleHeading,
                finalCleanup(chunkContent))
         IN PushExamples(pushed, Tail(examples), sectionHeading, introText, slug, config)

\* One iteration of the loop of chunkDocument over the sections: numbered
\* examples (priority 1), else the regular section (priorities 3 and 4); the
\* text holds no <Tab> element, so priority 2 finds no tabs.  chunkIndex
\* equals chunks.length throughout, as it advances with every push.
ChunkSection(chunkList, section, slug, config) ==
    LET sectionContent == finalCleanup(section)
        heading == SectionHeading(section)
        numberedExamples == splitNumberedExamples(section)
    IN IF Trim(section) = <<>> THEN chunkList
       ELSE IF Len(numberedExamples) >= 2
       THEN PushExamples(chunkList, numberedExamples, heading,
                Trim(finalCleanup(RemoveSectionHeading(
                    getContentBeforeNumberedExamples(section)))),
                slug, config)
       ELSE IF StrLen(Trim(sectionContent)) < MinSectionLength THEN chunkList
       ELSE IF StrLen(sectionContent) > config.maxChunkSize
       THEN PushParts(chunkList,
                splitOversizedSection(sectionContent, config.maxChunkSize),
                1, heading, slug, config)
       ELSE Push(chunkList, slug,
                heading,
                sectionContent)

RECURSIVE ChunkSections(_, _, _, _)
ChunkSections(chunkList, secs, slug, config) ==
    IF secs = <<>> THEN chunkList
    ELSE ChunkSections(ChunkSection(chunkList, Head(secs), slug, config),
                       Tail(secs), slug, config)

\* const chunks = []; let chunkIndex = 0; ... return chunks
chunkDocument(content, slug, config) ==
    ChunkSections([chunks |-> <<>>, chunkIndex |-> 0],
                  SplitSections(cleanMdxContent(content)), slug, config).chunks

-----------------------------------------------------------------------------
(* Configurations and idle values *)

DefaultMaxChunkSize == 2000
DefaultMinChunkSize == 250
DefaultIdealChunkSize == 1000

DEFAULT_CHUNK_CONFIG ==
    [maxChunkSize |-> DefaultMaxChunkSize, minChunkSize |-> DefaultMinChunkSize,
     idealChunkSize |-> DefaultIdealChunkSize]

\* maxChunkSize values a source is configured with
MaxSizes == {2000, 2100}

ReadmeConfigs == {[DEFAULT_CHUNK_CONFIG EXCEPT !.maxChunkSize = m] : m \in MaxSizes}

ContextName == "sdk"

MdIdle ==
    /\ doc = <<>> /\ nLines = 0 /\ cfg = DEFAULT_CHUNK_CONFIG /\ phase = "idle"
    /\ merged = <<>> /\ sections = <<>> /\ chunks = <<>>
    /\ prevMax = 0 /\ prevCount = 0

\* The chunking key of config.yaml: absent, or an object whose three fields are
\* each omitted (<<>>) or given (<<n>>)
NoChunking ==
    [present |-> FALSE, maxChunkSize |-> <<>>, minChunkSize |-> <<>>,
     idealChunkSize |-> <<>>]

CfIdle == rawChunking = NoChunking /\ cfgPhase = "idle" /\ chunkConfig = DEFAULT_CHUNK_CONFIG

IdIdle == pending = <<>> /\ allChunks = <<>> /\ driver = "none"

\* No call of parseOpenApiSpec is in progress
NoCall == [baseUrl |-> "", mappingDir |-> "none", specFile |-> "none"]

\* No walk over schemas is in progress
ScIdle == schemas = <<>> /\ callStack = <<>> /\ walk = "off" /\ deepest = 0

\* No call of the OpenAPI driver is in progress
CallIdle ==
    /\ ctx = [baseUrl |-> "", docUrlMap |-> {}] /\ call = NoCall /\ pc = "off"
    /\ out = <<>> /\ history = {} /\ nCalls = 0

\* No text has been cleaned
TxIdle == cleaned = <<>>

OaIdle == CallIdle /\ ScIdle /\ TxIdle

\* A document is written line by line
AppendLine(line) ==
    /\ phase = "input"
    /\ nLines < MaxLines
    /\ doc' = (IF nLines = 0 THEN line ELSE doc \o <<NL>> \o line)
    /\ nLines' = nLines + 1
    /\ UNCHANGED <<cfg, phase, merged, sections, chunks, prevMax, prevCount>>

-----------------------------------------------------------------------------
(* The README strategy on one document *)

\* Lines a README is written with: headings of two levels, a code fence, a
\* blank line and prose of three lengths (short, below minChunkSize, and
\* close to maxChunkSize)
ReadmeTextLens == {150, 200, 1840}

ReadmeLines(i) ==
    { <<Heading(1, "A")>>, <<Heading(2, "B")>>, <<Fence>>, <<>> }
    \cup { <<Text(n, ToString(i))>> : n \in ReadmeTextLens }

InitReadme ==
    /\ doc = <<>> /\ nLines = 0 /\ phase = "input"
    /\ cfg \in ReadmeConfigs
    /\ merged = <<>> /\ sections = <<>> /\ chunks = <<>>
    /\ prevMax = 0 /\ prevCount = 0
    /\ CfIdle /\ IdIdle /\ OaIdle

ReadmeAppend ==
    /\ \E line \in ReadmeLines(nLines + 1) : AppendLine(line)
    /\ UNCHANGED <<cfVars, idVars, oaVars>>

RunReadme ==
    /\ phase = "input"
    /\ nLines > 0
    /\ LET r == parseReadme(doc, ContextName, cfg)
       IN /\ merged' = r.merged
          /\ sections' = r.sections
          /\ chunks' = r.chunks
    /\ phase' = "done"
    /\ UNCHANGED <<doc, nLines, cfg, prevMax, prevCount, cfVars, idVars, oaVars>>

\* The same document is chunked again with a larger maxChunkSize, the other
\* sizes unchanged
RerunReadmeLargerMax ==
    /\ phase = "done"
    /\ \E m \in MaxSizes :
        /\ m > cfg.maxChunkSize
        /\ cfg' = [cfg EXCEPT !.maxChunkSize = m]
        /\ LET r == parseReadme(doc, ContextName, cfg')
           IN /\ merged' = r.merged
              /\ sections' = r.sections
              /\ chunks' = r.chunks
    /\ prevMax' = cfg.maxChunkSize
    /\ prevCount' = Len(chunks)
    /\ UNCHANGED <<doc, nLines, phase, cfVars, idVars, oaVars>>

NextReadme == ReadmeAppend \/ RunReadme \/ RerunReadmeLargerMax

SpecReadme == InitReadme /\ [][NextReadme]_vars

ConfigOrdered(c) == c.minChunkSize < c.idealChunkSize /\ c.idealChunkSize < c.maxChunkSize

\* C1: every FlatSection the README pipeline emits has content length <=
\* maxChunkSize, unless its content is exactly one fenced code block that
\* alone exceeds maxChunkSize.
C1_SizeInvariant ==
    (phase = "done" /\ ConfigOrdered(cfg)) =>
        \A i \in 1..Len(sections) :
            \/ StrLen(sections[i].content) <= cfg.maxChunkSize
            \/ IsCodeBlock(sections[i].content)

\* C2: when the fences of the document are balanced, every emitted chunk
\* contains an even number of fences.
C2_NoSplitInsideCode ==
    (phase = "done" /\ FenceCount(doc) % 2 = 0) =>
        \A i \in 1..Len(chunks) : FenceCount(chunks[i].content) % 2 = 0

\* C3: the only content lost by the README pipeline is fragments shorter than
\* minChunkSize / 2: a run of prose that appears in no emitted chunk is
\* shorter than minChunkSize / 2.
C3_OnlySmallFragmentsLost ==
    phase = "done" =>
        \A t \in Tokens(doc) :
            (t.k = "text" /\ \A i \in 1..Len(chunks) : t \notin Tokens(chunks[i].content))
                => 2 * t.n < cfg.minChunkSize

\* C6: for a fixed document, minChunkSize and idealChunkSize, a larger
\* maxChunkSize never gives more chunks.
C6_ConfigMonotonicity ==
    (phase = "done" /\ prevMax # 0 /\ prevMax < cfg.maxChunkSize) =>
        Len(chunks) <= prevCount

\* A FlatSection that is the flattened text of a childless section whose own
\* content is below minChunkSize
IsUndersizedLeaf(fs) ==
    LET nodes == parseIntoTree(doc)
    IN \E i \in 1..Len(nodes) :
        /\ Children(nodes, i) = <<>>
        /\ StrLen(nodes[i].content) < cfg.minChunkSize
        /\ fs.content = flattenSection(nodes, i)

\* C7 as claimed: every FlatSection of mergeHierarchicalSections has content
\* length >= minChunkSize or is an undersized section that was kept rather than
\* dropped (case 4, or a childless section flushed alone); no merged batch and
\* no own-content emission of a parent is below minChunkSize.
C7_MinSizeOriginal ==
    phase = "done" =>
        \A i \in 1..Len(merged) :
            \/ StrLen(merged[i].content) >= cfg.minChunkSize
            \/ merged[i].via = "small"
            \/ IsUndersizedLeaf(merged[i])

\* C7 as amended: every FlatSection of mergeHierarchicalSections has content
\* length >= minChunkSize, or is the own content of a too-large parent and has
\* length >= minChunkSize / 2, or is an undersized section kept by case 4 or a
\* flushed batch of undersized children.
C7_MinSizeAmended ==
    phase = "done" =>
        \A i \in 1..Len(merged) :
            \/ StrLen(merged[i].content) >= cfg.minChunkSize
            \/ merged[i].via = "own" /\ 2 * StrLen(merged[i].content) >= cfg.minChunkSize
            \/ merged[i].via \in {"small", "batch"}

\* C7 witness: the own content of a too-large parent was emitted alone with a
\* length between minChunkSize / 2 and minChunkSize
C7_Witness ==
    /\ phase = "done"
    /\ \E i \in 1..Len(merged) :
        /\ merged[i].via = "own"
        /\ StrLen(merged[i].content) < cfg.minChunkSize
        /\ StrLen(merged[i].content) > 0

-----------------------------------------------------------------------------
(* The changelog strategy on one document *)

\* Entries of three sizes: below minChunkSize, between minChunkSize and
\* maxChunkSize, above maxChunkSize
ChangelogTextLens == {60, 300, 2100}

VersionCount(s) == Cardinality({i \in 1..Len(s) : s[i].k = "ver"})

\* The version headings of the file are numbered in the order they are written
ChangelogLines(i) ==
    { <<VersionHead(VersionCount(doc) + 1)>>, <<Fence>>, <<>> }
    \cup { <<Text(n, ToString(i))>> : n \in ChangelogTextLens }

InitChangelog ==
    /\ doc = <<>> /\ nLines = 0 /\ phase = "input"
    /\ cfg = DEFAULT_CHUNK_CONFIG
    /\ merged = <<>> /\ sections = <<>> /\ chunks = <<>>
    /\ prevMax = 0 /\ prevCount = 0
    /\ CfIdle /\ IdIdle /\ OaIdle

ChangelogAppend ==
    /\ \E line \in ChangelogLines(nLines + 1) : AppendLine(line)
    /\ UNCHANGED <<cfVars, idVars, oaVars>>

RunChangelog ==
    /\ phase = "input"
    /\ nLines > 0
    /\ chunks' = parseChangelog(doc, ContextName, cfg)
    /\ phase' = "done"
    /\ UNCHANGED <<doc, nLines, cfg, merged, sections, prevMax, prevCount,
                   cfVars, idVars, oaVars>>

NextChangelog == ChangelogAppend \/ RunChangelog

SpecChangelog == InitChangelog /\ [][NextChangelog]_vars

\* The version headings a chunk contains
VersionsIn(chunk) == {t.n : t \in {x \in Tokens(chunk.content) : x.k = "ver"}}

\* C4: in the changelog strategy chunk indices increase in document order:
\* for chunks i < j, every version block of chunk i comes before every version
\* block of chunk j in the file.
C4_ChangelogOrder ==
    phase = "done" =>
        \A i, j \in 1..Len(chunks) :
            i < j => \A a \in VersionsIn(chunks[i]), b \in VersionsIn(chunks[j]) : a < b

-----------------------------------------------------------------------------
(* The MDX driver on one document *)

\* Prose of three lengths: 2995 characters fill, with the heading line
\* "## S", a section of 3000 characters; so do two paragraphs of 1496
MdxTextLens == {200, 1496, 2995}

MdxLines(i) ==
    { <<Heading(2, "S")>>, <<Fence>>, <<>> }
    \cup { <<Text(n, ToString(i))>> : n \in MdxTextLens }

MdxSlug == "docs/guide"

InitMdx ==
    /\ doc = <<>> /\ nLines = 0 /\ phase = "input"
    /\ cfg = DEFAULT_CHUNK_CONFIG
    /\ merged = <<>> /\ sections = <<>> /\ chunks = <<>>
    /\ prevMax = 0 /\ prevCount = 0
    /\ CfIdle /\ IdIdle /\ OaIdle

MdxAppend ==
    /\ \E line \in MdxLines(nLines + 1) : AppendLine(line)
    /\ UNCHANGED <<cfVars, idVars, oaVars>>

RunMdx ==
    /\ phase = "input"
    /\ nLines > 0
    /\ chunks' = chunkDocument(doc, MdxSlug, cfg)
    /\ phase' = "done"
    /\ UNCHANGED <<doc, nLines, cfg, merged, sections, prevMax, prevCount,
                   cfVars, idVars, oaVars>>

NextMdx == MdxAppend \/ RunMdx

SpecMdx == InitMdx /\ [][NextMdx]_vars

\* The document is one section: a "## " heading line followed by a body
\* without headings
IsOneSection(s) ==
    /\ s # <<>>
    /\ s[1].k = "head"
    /\ \A i \in 2..Len(s) : s[i].k # "head"

\* C10: a section of 3000 characters without sub-headings, chunked by the MDX
\* driver with maxChunkSize = 2000 and minChunkSize = 250, gives at least 2
\* chunks, each of at most 2000 characters unless it is a single code block
\* longer than that, and none but the last shorter than 250 characters.
C10_Scenario1 ==
    (/\ phase = "done"
     /\ IsOneSection(doc)
     /\ StrLen(doc) = 3000
     /\ cfg.maxChunkSize = 2000 /\ cfg.minChunkSize = 250) =>
        /\ Len(chunks) >= 2
        /\ \A i \in 1..Len(chunks) :
              \/ StrLen(chunks[i].content) <= 2000
              \/ IsCodeBlock(chunks[i].content)
        /\ \A i \in 1..(Len(chunks) - 1) : StrLen(chunks[i].content) >= 250

-----------------------------------------------------------------------------
(* Configuration: config.yaml -> ConfigSchema -> getChunkConfigFromConfig ->
   parseSource *)

MaxChunkSizeLow == 100
MaxChunkSizeHigh == 10000
MinChunkSizeLow == 50
MinChunkSizeHigh == 5000
IdealChunkSizeLow == 100
IdealChunkSizeHigh == 5000

\* z.number().min(lo).max(hi).default(d) on a field that is omitted or given
FieldValid(field, lo, hi) == field = <<>> \/ (field[1] >= lo /\ field[1] <= hi)
FieldValue(field, d) == IF field = <<>> THEN d ELSE field[1]

\* ChunkingSchema.safeParse: success
ChunkingValid(raw) ==
    \/ ~raw.present
    \/ /\ FieldValid(raw.maxChunkSize, MaxChunkSizeLow, MaxChunkSizeHigh)
       /\ FieldValid(raw.minChunkSize, MinChunkSizeLow, MinChunkSizeHigh)
       /\ FieldValid(raw.idealChunkSize, IdealChunkSizeLow, IdealChunkSizeHigh)

\* getChunkConfigFromConfig on the parsed data, the defaults filled in by the
\* schema
getChunkConfigFromConfig(raw) ==
    IF raw.present
    THEN [maxChunkSize |-> FieldValue(raw.maxChunkSize, DefaultMaxChunkSize),
          minChunkSize |-> FieldValue(raw.minChunkSize, DefaultMinChunkSize),
          idealChunkSize |-> FieldValue(raw.idealChunkSize, DefaultIdealChunkSize)]
    ELSE DEFAULT_CHUNK_CONFIG

\* Values around the limits of each field
MaxChunkSizeInputs == {<<>>, <<99>>, <<100>>, <<2000>>, <<10000>>, <<10001>>}
MinChunkSizeInputs == {<<>>, <<49>>, <<50>>, <<250>>, <<5000>>, <<5001>>}
IdealChunkSizeInputs == {<<>>, <<99>>, <<100>>, <<1000>>, <<5000>>, <<5001>>}

RawChunkings ==
    {NoChunking} \cup
    [present : {TRUE}, maxChunkSize : MaxChunkSizeInputs,
     minChunkSize : MinChunkSizeInputs, idealChunkSize : IdealChunkSizeInputs]

\* The README the configured chunker is run on
ConfigDoc ==
    <<Heading(1, "A"), NL, Text(200, "2"), NL, Heading(2, "B"), NL, Text(1840, "4")>>

InitConfig ==
    /\ MdIdle /\ CfIdle /\ IdIdle /\ OaIdle

WriteConfig ==
    /\ cfgPhase = "idle"
    /\ \E raw \in RawChunkings : rawChunking' = raw
    /\ cfgPhase' = "written"
    /\ UNCHANGED <<mdVars, chunkConfig, idVars, oaVars>>

\* loadConfig exits the process when the schema rejects the file; otherwise the
\* reindexer derives its ChunkConfig from the parsed data
LoadConfig ==
    /\ cfgPhase = "written"
    /\ IF ChunkingValid(rawChunking)
       THEN /\ chunkConfig' = getChunkConfigFromConfig(rawChunking)
            /\ cfgPhase' = "loaded"
       ELSE /\ cfgPhase' = "rejected"
            /\ UNCHANGED chunkConfig
    /\ UNCHANGED <<mdVars, rawChunking, idVars, oaVars>>

\* parseSource hands the ChunkConfig to the chunker
ParseSource ==
    /\ cfgPhase = "loaded"
    /\ cfg' = chunkConfig
    /\ doc' = ConfigDoc
    /\ LET r == parseReadme(ConfigDoc, ContextName, chunkConfig)
       IN merged' = r.merged /\ sections' = r.sections /\ chunks' = r.chunks
    /\ phase' = "done"
    /\ cfgPhase' = "chunking"
    /\ UNCHANGED <<nLines, prevMax, prevCount, rawChunking, chunkConfig, idVars, oaVars>>

NextConfig == WriteConfig \/ LoadConfig \/ ParseSource

SpecConfig == InitConfig /\ [][NextConfig]_vars

\* C8: every ChunkConfig that passes validation and reaches a chunker has
\* minChunkSize < idealChunkSize < maxChunkSize; a configuration out of this
\* order is rejected and never used for chunking.
C8_ConfigOrdering ==
    cfgPhase = "chunking" => ConfigOrdered(cfg)

-----------------------------------------------------------------------------
(* The source drivers: parseMarkdownSource and parseMDXSource over the files of
   one source *)

\* A relative file path: its directories, the file name without extension,
\* and the extension
File(dirs, stem, ext) == [dirs |-> dirs, stem |-> stem, ext |-> ext]

\* The markdown files a source may hold
MarkdownPaths ==
    { File(<<>>, "README", "md"), File(<<>>, "GUIDE", "md"),
      File(<<>>, "CHANGELOG", "md"),
      File(<<"docs">>, "README", "md"), File(<<"api", "docs">>, "README", "md") }

\* The MDX and MD files a source may hold
MdxPaths ==
    { File(<<>>, "guide", "mdx"), File(<<>>, "guide", "md"),
      File(<<"guide">>, "index", "mdx"), File(<<"api">>, "index", "mdx"),
      File(<<>>, "index", "mdx") }

\* What a file may contain: one section, or two
OneSectionDoc == <<Heading(2, "S"), NL, Text(300, "2")>>
TwoSectionDoc ==
    <<Heading(2, "S"), NL, Text(300, "2"), NL, Heading(2, "T"), NL, Text(1840, "4")>>
FileContents == {OneSectionDoc, TwoSectionDoc}

\* The lists findMarkdownFiles / findMdxFiles may return: distinct paths, each
\* with its content
FileLists(paths) ==
    UNION { { fl \in [1..n -> [path : paths, content : FileContents]] :
                \A i, j \in 1..n : i # j => fl[i].path # fl[j].path } : n \in 1..MaxFiles }

\* path.dirname(file) !== '.' ? `${contextName}/${path.basename(dirName)}` : contextName
fileContextName(file, contextName) ==
    IF file.dirs # <<>> THEN contextName \o "/" \o file.dirs[Len(file.dirs)]
    ELSE contextName

\* parseMarkdownFile: the strategy goes by the file name; none of MarkdownPaths
\* holds 'migration' or 'upgrade'
parseMarkdownFile(content, contextName, file, config) ==
    IF file.stem = "CHANGELOG"
    THEN parseChangelog(content, contextName, config)
    ELSE parseReadme(content, contextName, config).chunks

\* file.replace(/\.(mdx?|MDX?)$/, '').replace(/\/index$/, '')
RECURSIVE DirPrefix(_)
DirPrefix(dirs) == IF dirs = <<>> THEN "" ELSE Head(dirs) \o "/" \o DirPrefix(Tail(dirs))

FileSlug(file) ==
    IF file.stem = "index" /\ file.dirs # <<>>
    THEN DirPrefix(SubSeq(file.dirs, 1, Len(file.dirs) - 1)) \o file.dirs[Len(file.dirs)]
    ELSE DirPrefix(file.dirs) \o file.stem

SourceName == "docs"

\* What allChunks keeps of a chunk here
Pushed(chunkList) ==
    [i \in 1..Len(chunkList) |-> [id |-> chunkList[i].id, heading |-> chunkList[i].heading]]

InitIds ==
    /\ MdIdle /\ CfIdle /\ IdIdle /\ OaIdle

\* findMarkdownFiles / findMdxFiles
FindFiles ==
    /\ driver = "none"
    /\ \/ \E files \in FileLists(MarkdownPaths) : pending' = files /\ driver' = "markdown"
       \/ \E files \in FileLists(MdxPaths) : pending' = files /\ driver' = "mdx"
    /\ allChunks' = <<>>
    /\ UNCHANGED <<mdVars, cfVars, oaVars>>

\* One iteration of the loop of parseMarkdownSource
MarkdownFileStep ==
    /\ driver = "markdown"
    /\ pending # <<>>
    /\ LET f == Head(pending)
           fileChunks == parseMarkdownFile(f.content,
                             fileContextName(f.path, ContextName), f.path,
                             DEFAULT_CHUNK_CONFIG)
       IN allChunks' = allChunks \o Pushed(fileChunks)
    /\ pending' = Tail(pending)
    /\ UNCHANGED <<mdVars, cfVars, driver, oaVars>>

\* One iteration of the loop of parseMDXSource
MdxFileStep ==
    /\ driver = "mdx"
    /\ pending # <<>>
    /\ LET f == Head(pending)
           fileChunks == chunkDocument(f.content,
                             SourceName \o "/" \o FileSlug(f.path),
                             DEFAULT_CHUNK_CONFIG)
       IN allChunks' = allChunks \o Pushed(fileChunks)
    /\ pending' = Tail(pending)
    /\ UNCHANGED <<mdVars, cfVars, driver, oaVars>>

NextIds == FindFiles \/ MarkdownFileStep \/ MdxFileStep

SpecIds == InitIds /\ [][NextIds]_vars

\* C9: within one run of a source driver over files of distinct paths, no two
\* emitted DocChunks have the same id.
C9_UniqueIds ==
    \A i, j \in 1..Len(allChunks) : i # j => allChunks[i].id # allChunks[j].id

-----------------------------------------------------------------------------
(* The OpenAPI parser: parseOpenApiSpec called repeatedly in one process *)

\* An operation of a spec file.  The operationId is words joined by "_", with
\* an optional "_handler" suffix; the path is its list of segments.
Operation(method, pathParts, words, suffix, samples) ==
    [method |-> method, path |-> pathParts, words |-> words, suffix |-> suffix,
     samples |-> samples]

\* The OpenAPI files on disk: their operations in the order of
\* Object.entries(spec.paths) and of the methods within a path
SpecFiles == {"payments.yaml", "full.yaml"}

SpecOperations(specFile) ==
    IF specFile = "payments.yaml"
    THEN <<Operation("get", <<"payments">>, <<"list", "payments">>, "handler", <<>>)>>
    ELSE <<Operation("get", <<"payments">>, <<"list", "payments">>, "handler", <<"python">>),
           Operation("post", <<"payments">>, <<"create", "payment">>, "", <<>>)>>

\* The directories with MDX files carrying `openapi:` frontmatter: per file
\* its path without ".mdx", and the method and path of the frontmatter.
\* "missing" names a directory that does not exist, "none" an argument left out.
MappingDirs == {"none", "missing", "api-reference", "v2"}

MappingFiles(dir) ==
    CASE dir = "api-reference" ->
            <<[slug |-> "payments/list", method |-> "get", path |-> <<"payments">>]>>
      [] dir = "v2" ->
            <<[slug |-> "list-all", method |-> "get", path |-> <<"payments">>],
              [slug |-> "payments/create", method |-> "post", path |-> <<"payments">>]>>
      [] OTHER -> <<>>

BaseUrls == {"", "https://docs.example.com/api"}

toUpperCase(method) == IF method = "get" THEN "GET" ELSE "POST"

RECURSIVE PathString(_)
PathString(parts) == IF parts = <<>> THEN "" ELSE "/" \o Head(parts) \o PathString(Tail(parts))

RECURSIVE JoinWords(_, _)
JoinWords(words, sep) ==
    IF Len(words) = 1 THEN words[1] ELSE words[1] \o sep \o JoinWords(Tail(words), sep)

OperationId(op) ==
    JoinWords(op.words, "_") \o (IF op.suffix = "" THEN "" ELSE "_" \o op.suffix)

LookupKey(method, pathParts) == toUpperCase(method) \o " " \o PathString(pathParts)

\* docUrlMap.set(lookupKey, docUrl)
MapSet(map, key, url) == {e \in map : e.key # key} \cup {[key |-> key, url |-> url]}

\* buildDocUrlMap: a map of its own, filled from the files of the directory
RECURSIVE ScanDir(_, _, _)
ScanDir(files, map, baseUrl) ==
    IF files = <<>> THEN map
    ELSE ScanDir(Tail(files),
                 MapSet(map, LookupKey(Head(files).method, Head(files).path),
                        baseUrl \o "/" \o Head(files).slug),
                 baseUrl)

buildDocUrlMap(dir, baseUrl) == ScanDir(MappingFiles(dir), {}, baseUrl)

\* getDocUrl: the entry of ctx.docUrlMap, else the URL made from the
\* operationId without its "_handler" suffix, "_" replaced by "-"
getDocUrl(context, op) ==
    LET hits == {e \in context.docUrlMap : e.key = LookupKey(op.method, op.path)}
    IN IF hits # {} THEN (CHOOSE e \in hits : TRUE).url
       ELSE context.baseUrl \o "/"
            \o (IF op.path = <<>> THEN "misc" ELSE op.path[1]) \o "/"
            \o JoinWords(op.words, "-")

\* createApiDocChunk and createCodeSampleChunk of one operation
OperationChunks(context, op) ==
    <<[id |-> "api/" \o OperationId(op), sourceUrl |-> getDocUrl(context, op)]>>
    \o [k \in 1..Len(op.samples) |->
          [id |-> "api/" \o OperationId(op) \o "/code/" \o op.samples[k],
           sourceUrl |-> getDocUrl(context, op)]]

RECURSIVE AllOperationChunks(_, _)
AllOperationChunks(context, ops) ==
    IF ops = <<>> THEN <<>>
    ELSE OperationChunks(context, Head(ops)) \o AllOperationChunks(context, Tail(ops))

\* docUrlMap: new Map<string, string>() in the context a call creates; the
\* map of the context of the call before is not consulted
NewDocUrlMapStale(previous) == previous
NewDocUrlMap(previous) == {}

InitOpenApi ==
    /\ MdIdle /\ CfIdle /\ IdIdle /\ ScIdle /\ TxIdle
    /\ ctx = [baseUrl |-> "", docUrlMap |-> {}] /\ call = NoCall /\ pc = "idle"
    /\ out = <<>> /\ history = {} /\ nCalls = 0

\* parseOpenApiSpec is entered: it throws without a baseUrl, else creates ctx
EnterCall ==
    /\ pc = "idle"
    /\ nCalls < MaxCalls
    /\ \E b \in BaseUrls, d \in MappingDirs, f \in SpecFiles :
         LET args == [baseUrl |-> b, mappingDir |-> d, specFile |-> f]
         IN /\ call' = args
            /\ IF b = ""
               THEN /\ history' = history \cup
                          {[n |-> nCalls + 1, args |-> args, threw |-> TRUE, chunks |-> <<>>]}
                    /\ UNCHANGED <<ctx, pc>>
               ELSE /\ ctx' = [baseUrl |-> b, docUrlMap |-> NewDocUrlMap(ctx.docUrlMap)]
                    /\ pc' = "created"
                    /\ UNCHANGED history
    /\ nCalls' = nCalls + 1
    /\ out' = <<>>
    /\ UNCHANGED <<mdVars, cfVars, idVars, txVars, scVars>>

\* if (docsRoot && urlMappingDir) ctx.docUrlMap = buildDocUrlMap(...)
BuildUrlMap ==
    /\ pc = "created"
    /\ ctx' = IF call.mappingDir # "none"
              THEN [ctx EXCEPT !.docUrlMap = buildDocUrlMap(call.mappingDir, call.baseUrl)]
              ELSE ctx
    /\ pc' = "mapped"
    /\ UNCHANGED <<mdVars, cfVars, idVars, txVars, scVars, call, out, history, nCalls>>

\* The loop over the paths and methods of the spec file, and the return
ProcessPaths ==
    /\ pc = "mapped"
    /\ out' = AllOperationChunks(ctx, SpecOperations(call.specFile))
    /\ history' = history \cup
           {[n |-> nCalls, args |-> call, threw |-> FALSE, chunks |-> out']}
    /\ pc' = "idle"
    /\ UNCHANGED <<mdVars, cfVars, idVars, txVars, scVars, ctx, call, nCalls>>

NextOpenApi == EnterCall \/ BuildUrlMap \/ ProcessPaths

SpecOpenApi == InitOpenApi /\ [][NextOpenApi]_vars

\* C5: two calls of the driver with the same arguments return the same chunk
\* list (or both throw), whatever calls were made before or between them: the
\* URL-lookup table is made anew in each call.
C5_Determinism ==
    \A h1, h2 \in history :
        h1.args = h2.args => (h1.threw = h2.threw /\ h1.chunks = h2.chunks)

\* The same arguments were used by two calls that returned chunks, with a call
\* that filled another URL table between them
C5_Witness ==
    \E h1, h2, h3 \in history :
        /\ h1.n < h3.n /\ h3.n < h2.n
        /\ h1.args = h2.args
        /\ h1.chunks # <<>>
        /\ h3.args.mappingDir \in {"api-reference", "v2"}
        /\ h3.args.mappingDir # h1.args.mappingDir
        /\ ~h3.threw

-----------------------------------------------------------------------------
(* The merge engine on the tree of one document *)

\* The configurations the engine is run with: idealChunkSize 800, and an
\* idealChunkSize that two small sections together exceed
MergeIdealSizes == {300, 800}

MergeConfigs == {[DEFAULT_CHUNK_CONFIG EXCEPT !.idealChunkSize = n] : n \in MergeIdealSizes}

\* A section of level 2: its heading line and a body of n characters
SectionBlock(title, n, i) == <<Heading(2, title), NL, Text(n, ToString(i))>>

\* What a document is written with: the heading of a parent, sections of
\* level 2 of 50, 240 and 1950 characters, and prose of 60 and 130 characters
MergeBlocks(i) ==
    { <<Heading(1, "Parent")>>,
      SectionBlock("HeadingA", 50, i), SectionBlock("HeadingB", 50, i),
      SectionBlock("HeadingA", 240, i), SectionBlock("HeadingB", 1950, i),
      <<Text(60, ToString(i))>>, <<Text(130, ToString(i))>> }

InitMerge ==
    /\ doc = <<>> /\ nLines = 0 /\ phase = "input"
    /\ cfg \in MergeConfigs
    /\ merged = <<>> /\ sections = <<>> /\ chunks = <<>>
    /\ prevMax = 0 /\ prevCount = 0
    /\ CfIdle /\ IdIdle /\ OaIdle

MergeAppend ==
    /\ \E block \in MergeBlocks(nLines + 1) : AppendLine(block)
    /\ UNCHANGED <<cfVars, idVars, oaVars>>

RunMerge ==
    /\ phase = "input"
    /\ nLines > 0
    /\ merged' = mergeHierarchicalSections(parseIntoTree(doc), cfg)
    /\ phase' = "done"
    /\ UNCHANGED <<doc, nLines, cfg, sections, chunks, prevMax, prevCount,
                   cfVars, idVars, oaVars>>

NextMerge == MergeAppend \/ RunMerge

SpecMerge == InitMerge /\ [][NextMerge]_vars

\* The text s occurs in the content of the FlatSection fs
Holds(fs, s) ==
    \E a \in 1..Len(fs.content) :
        /\ a + Len(s) - 1 <= Len(fs.content)
        /\ SubSeq(fs.content, a, a + Len(s) - 1) = s

\* The emitted FlatSections that hold the own content of section i
Holders(nodes, i) == {k \in 1..Len(merged) : Holds(merged[k], nodes[i].content)}

\* The siblings of section i, itself included, in order
Siblings(nodes, i) == Children(nodes, nodes[i].parent)

\* Sections i and j are adjacent siblings HeadingA and HeadingB, childless,
\* of 50 characters each, all their other siblings being of minChunkSize or more
ScenarioSiblings(nodes, i, j) ==
    LET sibs == Siblings(nodes, i)
    IN /\ nodes[i].heading = "HeadingA" /\ nodes[j].heading = "HeadingB"
       /\ StrLen(nodes[i].content) = 50 /\ StrLen(nodes[j].content) = 50
       /\ Children(nodes, i) = <<>> /\ Children(nodes, j) = <<>>
       /\ \E k \in 1..(Len(sibs) - 1) : sibs[k] = i /\ sibs[k + 1] = j
       /\ \A k \in 1..Len(sibs) :
             sibs[k] \notin {i, j} => getSectionSize(nodes, sibs[k]) >= cfg.minChunkSize

\* C11: two adjacent sibling sections HeadingA and HeadingB of 50 characters
\* each, merged with idealChunkSize = 800 and minChunkSize = 250, come out as
\* exactly one chunk, with the heading "HeadingA / HeadingB", be they roots or
\* children of a common parent.
C11_SiblingsMerged ==
    (phase = "done" /\ cfg.idealChunkSize = 800 /\ cfg.minChunkSize = 250) =>
        LET nodes == parseIntoTree(doc)
        IN \A i, j \in 1..Len(nodes) :
              ScenarioSiblings(nodes, i, j) =>
                  /\ Cardinality(Holders(nodes, i) \cup Holders(nodes, j)) = 1
                  /\ \A k \in Holders(nodes, i) \cup Holders(nodes, j) :
                        merged[k].heading = "HeadingA / HeadingB"

\* Section i is handled as "subtree too large" (case 3): every section above
\* it is too large as well, so processSection reaches it
TooLarge(nodes, i) == getSectionSize(nodes, i) > cfg.maxChunkSize

\* C19: the non-empty own content of every section of the tree is held by
\* exactly one emitted FlatSection, unless the section is handled as too
\* large and its own content is shorter than minChunkSize / 2.
C19_NoSilentDrop ==
    phase = "done" =>
        LET nodes == parseIntoTree(doc)
        IN \A i \in 1..Len(nodes) :
              (nodes[i].content # <<>>
               /\ ~(TooLarge(nodes, i) /\ 2 * StrLen(nodes[i].content) < cfg.minChunkSize))
                  => Cardinality(Holders(nodes, i)) = 1

\* A section below minChunkSize was kept anyway, next to a too-large section
\* whose short own content was left out and whose child was emitted
C19_Witness ==
    /\ phase = "done"
    /\ \E k \in 1..Len(merged) : merged[k].via = "small"
    /\ LET nodes == parseIntoTree(doc)
       IN \E i, j \in 1..Len(nodes) :
             /\ TooLarge(nodes, i) /\ nodes[i].content # <<>>
             /\ Holders(nodes, i) = {}
             /\ nodes[j].parent = i /\ Cardinality(Holders(nodes, j)) = 1

\* Summed size of the children number a to b of a section
RECURSIVE RunSize(_, _, _, _)
RunSize(nodes, kids, a, b) ==
    IF a > b THEN 0 ELSE getSectionSize(nodes, kids[a]) + RunSize(nodes, kids, a + 1, b)

\* The FlatSection fs is the batch of the children number a to b
IsBatchOf(fs, nodes, kids, a, b) ==
    fs.content = Join([k \in 1..(b - a + 1) |-> flattenSection(nodes, kids[a + k - 1])],
                      <<NL, NL>>)

\* C20: every flushed batch is a run of consecutive children of a too-large
\* section, each child of size below minChunkSize (a child of minChunkSize
\* or more is in no batch), and a batch of more than one child sums to at
\* most idealChunkSize.
C20_BatchInvariants ==
    phase = "done" =>
        LET nodes == parseIntoTree(doc)
        IN \A k \in 1..Len(merged) :
              merged[k].via = "batch" =>
                \E p \in 1..Len(nodes) :
                  LET kids == Children(nodes, p)
                  IN /\ TooLarge(nodes, p)
                     /\ \E a \in 1..Len(kids) : \E b \in a..Len(kids) :
                          /\ IsBatchOf(merged[k], nodes, kids, a, b)
                          /\ \A m \in a..b :
                                getSectionSize(nodes, kids[m]) < cfg.minChunkSize
                          /\ b > a => RunSize(nodes, kids, a, b) <= cfg.idealChunkSize

\* A batch of two children was flushed, and a child of minChunkSize or more
\* of the same section was emitted on its own
C20_Witness ==
    /\ phase = "done"
    /\ LET nodes == parseIntoTree(doc)
       IN \E k \in 1..Len(merged) : \E p \in 1..Len(nodes) :
             LET kids == Children(nodes, p)
             IN /\ merged[k].via = "batch"
                /\ \E a \in 1..(Len(kids) - 1) : IsBatchOf(merged[k], nodes, kids, a, a + 1)
                /\ \E m \in 1..Len(kids) :
                      /\ getSectionSize(nodes, kids[m]) >= cfg.minChunkSize
                      /\ Cardinality(Holders(nodes, kids[m])) = 1

\* The own content of section i is emitted alone, under its own heading
EmittedAlone(nodes, i) ==
    \E k \in 1..Len(merged) :
        merged[k].content = nodes[i].content /\ merged[k].heading = nodes[i].heading

\* C21: the non-empty own content of a section handled as too large is
\* emitted alone as one FlatSection if it has minChunkSize / 2 characters or
\* more; if it is shorter it is not emitted alone, but still some emitted
\* FlatSection holds it.
C21_OwnContentKept ==
    phase = "done" =>
        LET nodes == parseIntoTree(doc)
        IN \A i \in 1..Len(nodes) :
              (TooLarge(nodes, i) /\ nodes[i].content # <<>>) =>
                  IF 2 * StrLen(nodes[i].content) >= cfg.minChunkSize
                  THEN EmittedAlone(nodes, i) /\ Cardinality(Holders(nodes, i)) = 1
                  ELSE ~EmittedAlone(nodes, i) /\ Holders(nodes, i) # {}

\* C22: the FlatSections come out in document order: if section i precedes
\* section j in the document, the FlatSection that holds the own content of
\* i is the one that holds the own content of j, or one emitted before it.
C22_DocumentOrder ==
    phase = "done" =>
        LET nodes == parseIntoTree(doc)
        IN \A i, j \in 1..Len(nodes) :
              (i < j /\ nodes[i].content # <<>> /\ nodes[j].content # <<>>) =>
                  \A a \in Holders(nodes, i) : \A b \in Holders(nodes, j) : a <= b

\* Under a too-large section, a flushed batch is followed by a child that
\* was processed on its own, and a later section follows both
C22_Witness ==
    /\ phase = "done"
    /\ \E k \in 1..(Len(merged) - 2) :
          /\ merged[k].via = "batch" /\ merged[k + 1].via = "leaf"
          /\ merged[k].breadcrumbs = <<"Parent">> /\ merged[k + 1].breadcrumbs = <<"Parent">>
    /\ LET nodes == parseIntoTree(doc)
       IN \A i \in 1..Len(nodes) :
             nodes[i].parent # 0 => Cardinality(Holders(nodes, i)) = 1

-----------------------------------------------------------------------------
(* The changelog strategy on a file of many version entries *)

MaxEntries == 10

\* A version entry of n characters: its heading line "## 1.0.v" and a body
EntryBlock(v, n) == <<VersionHead(v), NL, Text(n - 9, ToString(v))>>

\* Entries below minChunkSize and entries above it
EntrySizes == {50, 300}

InitVersions ==
    /\ doc = <<>> /\ nLines = 0 /\ phase = "input"
    /\ cfg = DEFAULT_CHUNK_CONFIG
    /\ merged = <<>> /\ sections = <<>> /\ chunks = <<>>
    /\ prevMax = 0 /\ prevCount = 0
    /\ CfIdle /\ IdIdle /\ OaIdle

EntryAppend ==
    /\ phase = "input"
    /\ nLines < MaxEntries
    /\ \E n \in EntrySizes :
         doc' = (IF nLines = 0 THEN <<>> ELSE doc \o <<NL>>) \o EntryBlock(nLines + 1, n)
    /\ nLines' = nLines + 1
    /\ UNCHANGED <<cfg, phase, merged, sections, chunks, prevMax, prevCount,
                   cfVars, idVars, oaVars>>

RunVersions ==
    /\ phase = "input"
    /\ nLines > 0
    /\ chunks' = parseChangelog(doc, ContextName, cfg)
    /\ phase' = "done"
    /\ UNCHANGED <<doc, nLines, cfg, merged, sections, prevMax, prevCount,
                   cfVars, idVars, oaVars>>

NextVersions == EntryAppend \/ RunVersions

SpecVersions == InitVersions /\ [][NextVersions]_vars

\* The file holds 10 version entries of 50 characters each, and was chunked
\* with idealChunkSize = 1000
TenSmallEntries ==
    /\ phase = "done"
    /\ cfg.idealChunkSize = 1000
    /\ LET parts == VersionParts(doc)
       IN Len(parts) = 10 /\ \A k \in 1..10 : StrLen(parts[k].content) = 50

\* The headings "Versions X - Y"
RangeHeadings ==
    {"Versions " \o VersionName(x) \o " - " \o VersionName(y) : x, y \in 1..(MaxEntries + 1)}

\* C12 as stated: 10 version entries of 50 characters each, chunked with
\* idealChunkSize = 1000, give about 5 merged chunks (4 to 6), each of at most
\* 1000 characters and headed "Versions X - Y".
C12_AboutFiveChunks ==
    TenSmallEntries =>
        /\ Len(chunks) \in 4..6
        /\ \A k \in 1..Len(chunks) :
              StrLen(chunks[k].content) <= 1000 /\ chunks[k].heading \in RangeHeadings

\* C12, amended: the 10 entries of 50 characters each are batched into one
\* merged chunk of at most 1000 characters, headed "Versions 1.0.10 - 1.0.1"
\* (the last version of the file, then the first).
C12_OneMergedChunk ==
    TenSmallEntries =>
        /\ Len(chunks) = 1
        /\ StrLen(chunks[1].content) <= 1000
        /\ chunks[1].heading = "Versions " \o VersionName(10) \o " - " \o VersionName(1)
        /\ VersionsIn(chunks[1]) = 1..10

C12_Witness == TenSmallEntries /\ Len(chunks) = 1

-----------------------------------------------------------------------------
(* The MDX driver on a section of numbered examples *)

MaxExamples == 5

\* A numbered example: its heading line "### k. Ex" and a body of n characters
ExampleBlock(number, n) ==
    <<NumberedHeading(number, "Ex"), NL, Text(n, ToString(number))>>

\* Bodies: short, ordinary, and longer than maxChunkSize
ExampleSizes == {60, 300, 2100}

\* The section begins with its heading line; the examples follow
InitExamples ==
    /\ doc = <<Heading(2, "S")>> /\ nLines = 0 /\ phase = "input"
    /\ cfg = DEFAULT_CHUNK_CONFIG
    /\ merged = <<>> /\ sections = <<>> /\ chunks = <<>>
    /\ prevMax = 0 /\ prevCount = 0
    /\ CfIdle /\ IdIdle /\ OaIdle

ExampleAppend ==
    /\ phase = "input"
    /\ nLines < MaxExamples
    /\ \E n \in ExampleSizes : doc' = doc \o <<NL, NL>> \o ExampleBlock(nLines + 1, n)
    /\ nLines' = nLines + 1
    /\ UNCHANGED <<cfg, phase, merged, sections, chunks, prevMax, prevCount,
                   cfVars, idVars, oaVars>>

RunExamples ==
    /\ phase = "input"
    /\ nLines > 0
    /\ chunks' = chunkDocument(doc, MdxSlug, cfg)
    /\ phase' = "done"
    /\ UNCHANGED <<doc, nLines, cfg, merged, sections, prevMax, prevCount,
                   cfVars, idVars, oaVars>>

NextExamples == ExampleAppend \/ RunExamples

SpecExamples == InitExamples /\ [][NextExamples]_vars

\* C13: a "##" section with the five numbered sub-headings "### 1." to
\* "### 5." gives exactly 5 chunks, one per sub-heading, each headed
\* "<parent>: <example title>", whatever the length of the examples' bodies.
C13_FiveExamples ==
    (phase = "done" /\ Cardinality(NumberedMatches(doc)) = 5) =>
        /\ Len(chunks) = 5
        /\ \A k \in 1..Len(chunks) :
              /\ chunks[k].heading = "S: Ex"
              /\ \E i \in 1..Len(chunks[k].content) :
                    chunks[k].content[i] = NumberedHeading(k, "Ex")

-----------------------------------------------------------------------------
(* OpenAPI schemas: resolveSchema, generateExample, formatSchemaProperties.  *)
(* The recursion of the three functions is run one call at a time on an      *)
(* explicit call stack, so that a call that never returns is a behaviour     *)
(* that never empties the stack.                                             *)

\* A SchemaObject: kind "ref" has $ref = target; "allOf" has allOf = kids;
\* "object" has type 'object' and properties = kids; "array" has items =
\* kids[1]; "string" is a scalar; "null" stands for null / undefined
Ref(name) == [kind |-> "ref", target |-> name, kids |-> <<>>]
Scalar == [kind |-> "string", target |-> "", kids |-> <<>>]
NullSchema == [kind |-> "null", target |-> "", kids |-> <<>>]
ObjectOf(properties) == [kind |-> "object", target |-> "", kids |-> properties]
ArrayOf(items) == [kind |-> "array", target |-> "", kids |-> <<items>>]
AllOf(members) == [kind |-> "allOf", target |-> "", kids |-> members]

\* The names under components.schemas, and the names a $ref may carry (one
\* of them is defined nowhere)
SchemaNames == {"A", "B"}
RefNames == SchemaNames \cup {"Gone"}

\* Schemas written inline as a property or as array items
InlineSchemas ==
    {Ref(n) : n \in RefNames} \cup {Scalar} \cup {ObjectOf(<<Ref(n)>>) : n \in SchemaNames}

\* The schemas a component may be
ComponentSchemas ==
    {Ref(n) : n \in RefNames} \cup {Scalar}
    \cup {ObjectOf(<<p>>) : p \in InlineSchemas}
    \cup {ObjectOf(<<Ref(n), p>>) : n \in SchemaNames, p \in InlineSchemas}
    \cup {ArrayOf(p) : p \in InlineSchemas}
    \cup {AllOf(<<Ref(n)>>) : n \in SchemaNames}
    \cup {AllOf(<<Ref(n), Ref(m)>>) : n, m \in SchemaNames}

SchemaGraphs == [SchemaNames -> ComponentSchemas]

\* A call of generateExample or formatSchemaProperties: next is the index of
\* the next child call it makes. A call of resolveSchema: ref and visited are
\* its arguments, fn and depth those of the call that awaits its result.
Frame(fn, schema, depth) ==
    [fn |-> fn, schema |-> schema, depth |-> depth, next |-> 1, ref |-> "", visited |-> {}]
ResolveFrame(fn, ref, visited, depth) ==
    [fn |-> fn, schema |-> NullSchema, depth |-> depth, next |-> 0, ref |-> ref, visited |-> visited]
IsResolve(f) == f.next = 0

\* if (depth > 3 || !schema) return null   /   if (!schema || depth > 3) return ''
MaxDepth == 3
DepthExceededNever(depth) == FALSE
DepthExceeded(depth) == depth > MaxDepth

\* Nested properties are formatted only above this depth
MaxNestedDepth == 2

\* The schemas the call makes a recursive call on, in order, after the
\* $ref case
ChildSchemas(f) ==
    IF f.fn = "generateExample"
    THEN IF f.schema.kind \in {"allOf", "object", "array"} THEN f.schema.kids ELSE <<>>
    ELSE CASE f.schema.kind = "allOf" -> f.schema.kids
           [] f.schema.kind = "object" ->
                IF f.depth < MaxNestedDepth
                THEN SelectSeq(f.schema.kids, LAMBDA p : p.kind = "object" /\ p.kids # <<>>)
                ELSE <<>>
           [] OTHER -> <<>>

Top == callStack[Len(callStack)]
Below == SubSeq(callStack, 1, Len(callStack) - 1)
Max(a, b) == IF a > b THEN a ELSE b

\* The call stack never needs more entries than MaxStack (checked below)
MaxStack == 8

InitSchemas ==
    /\ MdIdle /\ CfIdle /\ IdIdle /\ CallIdle /\ TxIdle
    /\ schemas = <<>> /\ callStack = <<>> /\ walk = "none" /\ deepest = 0

\* createApiDocChunk calls one of the two functions on a schema of the document
StartWalk ==
    /\ walk = "none"
    /\ \E g \in SchemaGraphs, fn \in {"generateExample", "formatSchemaProperties"},
          root \in {Ref(n) : n \in SchemaNames} \cup {ObjectOf(<<Ref(n)>>) : n \in SchemaNames} :
         /\ schemas' = g
         /\ callStack' = <<Frame(fn, root, 0)>>
    /\ walk' = "running"
    /\ deepest' = 0
    /\ UNCHANGED <<mdVars, cfVars, idVars, txVars, ctx, call, pc, out, history, nCalls>>

\* The innermost call returns: depth exceeded, no schema, or no child call left
Return ==
    /\ walk = "running" /\ callStack # <<>>
    /\ ~IsResolve(Top)
    /\ \/ DepthExceeded(Top.depth)
       \/ Top.schema.kind = "null"
       \/ Top.schema.kind = "ref" /\ Top.next > 1
       \/ Top.schema.kind # "ref" /\ Top.next > Len(ChildSchemas(Top))
    /\ callStack' = Below
    /\ walk' = IF Below = <<>> THEN "returned" ELSE "running"
    /\ UNCHANGED <<schemas, deepest>>
    /\ UNCHANGED <<mdVars, cfVars, idVars, txVars, ctx, call, pc, out, history, nCalls>>

\* if (schema.$ref) resolveSchema(schema.$ref, schemas, new Set())
CallResolve ==
    /\ walk = "running" /\ callStack # <<>> /\ Len(callStack) < MaxStack
    /\ ~IsResolve(Top) /\ ~DepthExceeded(Top.depth)
    /\ Top.schema.kind = "ref" /\ Top.next = 1
    /\ callStack' = Below \o <<[Top EXCEPT !.next = 2],
                           ResolveFrame(Top.fn, Top.schema.target, {}, Top.depth)>>
    /\ UNCHANGED <<schemas, walk, deepest>>
    /\ UNCHANGED <<mdVars, cfVars, idVars, txVars, ctx, call, pc, out, history, nCalls>>

\* The body of resolveSchema; its result is the schema argument of the call
\* the awaiting function makes next, with depth + 1
ResolveStep ==
    /\ walk = "running" /\ callStack # <<>>
    /\ IsResolve(Top)
    /\ LET name == Top.ref
           result(schema) == Frame(Top.fn, schema, Top.depth + 1)
       IN /\ callStack' = Below \o
               << IF name \in Top.visited THEN result(NullSchema)
                  ELSE IF name \notin DOMAIN schemas THEN result(NullSchema)
                  ELSE IF schemas[name].kind = "ref"
                       THEN ResolveFrame(Top.fn, schemas[name].target,
                                         Top.visited \cup {name}, Top.depth)
                       ELSE result(schemas[name]) >>
          /\ deepest' = IF IsResolve(callStack'[Len(callStack')]) THEN deepest
                        ELSE Max(deepest, Top.depth + 1)
    /\ UNCHANGED <<schemas, walk>>
    /\ UNCHANGED <<mdVars, cfVars, idVars, txVars, ctx, call, pc, out, history, nCalls>>

\* A recursive call on a member of allOf, a property or the items, depth + 1
Descend ==
    /\ walk = "running" /\ callStack # <<>> /\ Len(callStack) < MaxStack
    /\ ~IsResolve(Top) /\ ~DepthExceeded(Top.depth)
    /\ Top.schema.kind \notin {"ref", "null"}
    /\ Top.next <= Len(ChildSchemas(Top))
    /\ callStack' = Below \o <<[Top EXCEPT !.next = @ + 1],
                           Frame(Top.fn, ChildSchemas(Top)[Top.next], Top.depth + 1)>>
    /\ deepest' = Max(deepest, Top.depth + 1)
    /\ UNCHANGED <<schemas, walk>>
    /\ UNCHANGED <<mdVars, cfVars, idVars, txVars, ctx, call, pc, out, history, nCalls>>

NextSchemas == StartWalk \/ Return \/ CallResolve \/ ResolveStep \/ Descend

\* A started call runs on until it returns
SpecSchemas == InitSchemas /\ [][NextSchemas]_vars /\ WF_vars(NextSchemas)

\* Name n is reached from itself by following $ref, properties, items, allOf
RECURSIVE RefsIn(_)
RefsIn(schema) ==
    IF schema.kind = "ref" THEN {schema.target}
    ELSE IF schema.kids = <<>> THEN {}
    ELSE UNION {RefsIn(schema.kids[i]) : i \in 1..Len(schema.kids)}

RECURSIVE ReachableNames(_, _)
ReachableNames(g, names) ==
    LET more == names \cup UNION {RefsIn(g[n]) \cap DOMAIN g : n \in names}
    IN IF more = names THEN names ELSE ReachableNames(g, more)

Cyclic(g) == \E n \in DOMAIN g : n \in ReachableNames(g, RefsIn(g[n]) \cap DOMAIN g)

\* No call below depth 3 does anything but return
DepthCapped ==
    /\ Len(callStack) < MaxStack
    /\ \A i \in 1..Len(callStack) :
          /\ callStack[i].depth <= MaxDepth + 1
          /\ callStack[i].depth > MaxDepth => (~IsResolve(callStack[i]) /\ callStack[i].next = 1)
          /\ IsResolve(callStack[i]) => callStack[i].depth <= MaxDepth

\* C14: on every schema graph, cyclic ones included, a started call of
\* generateExample or formatSchemaProperties (and every resolveSchema inside
\* it) returns, and no call at a depth beyond 3 expands its schema.
C14_Terminates == [](DepthCapped) /\ (walk = "running" ~> walk = "returned")

\* A call on a graph with a $ref cycle reached depth 4 and has returned
C14_Witness ==
    /\ walk = "returned" /\ deepest = MaxDepth + 1
    /\ Cyclic(schemas)
    /\ \E n \in DOMAIN schemas : schemas[n] = Ref(n) \/ schemas[n] = ObjectOf(<<Ref(n)>>)

-----------------------------------------------------------------------------
(* parseOpenAPISource: the router in front of parseOpenApiSpec               *)

\* A file name of the source directory
FileName(stem, ext) == [stem |-> stem, ext |-> ext]
NameOf(f) == f.stem \o "." \o f.ext

\* /\.(ya?ml|json)$/i
SpecExtensions == {"yaml", "yml", "json", "YAML", "YML", "JSON", "Yaml", "Json"}
IsSpecFileName(f) == f.ext \in SpecExtensions

\* fs.readdirSync(localPath): the directories a source may point at
Listings ==
    { <<>>,
      <<FileName("README", "md")>>,
      <<FileName("README", "md"), FileName("payments", "yaml")>>,
      <<FileName("full", "yaml"), FileName("payments", "yaml")>>,
      <<FileName("notes", "txt"), FileName("openapi", "yamlx")>> }

\* files.find(f => /\.(ya?ml|json)$/i.test(f)); "none" is undefined
RECURSIVE FindSpecFile(_)
FindSpecFile(files) ==
    IF files = <<>> THEN "none"
    ELSE IF IsSpecFileName(Head(files)) THEN NameOf(Head(files))
    ELSE FindSpecFile(Tail(files))

\* source.urlMappingDir as configured; "none" when the key is absent
SourceMappingDirs == {"none", "api-reference"}

InitRouter ==
    /\ MdIdle /\ CfIdle /\ IdIdle /\ ScIdle /\ TxIdle
    /\ ctx = [baseUrl |-> "", docUrlMap |-> {}] /\ call = NoCall /\ pc = "idle"
    /\ out = <<>> /\ history = {} /\ nCalls = 0

\* parseOpenAPISource up to the call of parseOpenApiSpec: it returns [] when
\* the directory holds no spec file, then throws when the source has no baseUrl
RouteSource ==
    /\ pc = "idle"
    /\ nCalls < MaxCalls
    /\ \E b \in BaseUrls, d \in SourceMappingDirs, files \in Listings :
         LET specFile == FindSpecFile(files)
             args == [baseUrl |-> b, mappingDir |-> d, specFile |-> specFile]
         IN /\ call' = args
            /\ IF specFile = "none"
               THEN /\ history' = history \cup
                          {[n |-> nCalls + 1, args |-> args, threw |-> FALSE, chunks |-> <<>>]}
                    /\ UNCHANGED pc
               ELSE IF b = ""
               THEN /\ history' = history \cup
                          {[n |-> nCalls + 1, args |-> args, threw |-> TRUE, chunks |-> <<>>]}
                    /\ UNCHANGED pc
               ELSE /\ pc' = "routed"
                    /\ UNCHANGED history
    /\ nCalls' = nCalls + 1
    /\ out' = <<>>
    /\ UNCHANGED <<mdVars, cfVars, idVars, txVars, scVars, ctx>>

\* parseOpenApiSpec(specPath, source.baseUrl, docsRoot, urlMappingDir, chunkConfig)
EnterParser ==
    /\ pc = "routed"
    /\ IF call.baseUrl = ""
       THEN /\ history' = history \cup
                  {[n |-> nCalls, args |-> call, threw |-> TRUE, chunks |-> <<>>]}
            /\ pc' = "idle"
            /\ UNCHANGED ctx
       ELSE /\ ctx' = [baseUrl |-> call.baseUrl, docUrlMap |-> NewDocUrlMap(ctx.docUrlMap)]
            /\ pc' = "created"
            /\ UNCHANGED history
    /\ UNCHANGED <<mdVars, cfVars, idVars, txVars, scVars, call, out, nCalls>>

NextRouter == RouteSource \/ EnterParser \/ BuildUrlMap \/ ProcessPaths

SpecRouter == InitRouter /\ [][NextRouter]_vars

\* C15: a call of parseOpenAPISource on a source without baseUrl never
\* returns a chunk list, not even an empty one: it throws, also when the
\* directory holds no spec file.
C15_NoBaseUrlThrows == \A h \in history : h.args.baseUrl = "" => h.threw

-----------------------------------------------------------------------------
(* Text cleaning: removeImportsExports, removeFrontmatter, normalizeWhitespace *)

\* Character offset of token i in s
Offset(s, i) == StrLen(SubSeq(s, 1, i - 1))

\* The regex anchor ^ under the m flag
AtLineStart(s, i) == i = 1 \/ s[i - 1].k = "nl"

\* Offsets of the occurrences of ``` in s.substring(0, Offset(s, i))
FenceOffsetsBefore(s, i) == {Offset(s, j) : j \in {j \in 1..(i - 1) : s[j].k = "fence"}}

\* String.prototype.lastIndexOf over the offsets of the occurrences: the
\* last one at or before fromIndex, -1 if none; a negative fromIndex counts as 0
lastIndexOf(offsets, fromIndex) ==
    LET from == IF fromIndex < 0 THEN 0 ELSE fromIndex
        found == {o \in offsets : o <= from}
    IN IF found = {} THEN -1 ELSE CHOOSE o \in found : \A q \in found : q <= o

\* if (lastCodeBlockStart > lastCodeBlockEnd) return match
KeepsImport(s, i) ==
    LET before == FenceOffsetsBefore(s, i)
        lastCodeBlockStart == lastIndexOf(before, StrLen(s))
        lastCodeBlockEnd == lastIndexOf(before, lastCodeBlockStart - 1)
    IN lastCodeBlockStart > lastCodeBlockEnd

\* First position at or after i that holds no whitespace (\s)
RECURSIVE SkipWhitespace(_, _)
SkipWhitespace(s, i) ==
    IF i <= Len(s) /\ IsSpace(s[i]) THEN SkipWhitespace(s, i + 1) ELSE i

\* Last token of the match of  ...;?\s*$  that starts with the statement at
\* i: \s* takes the whitespace after the statement up to the end of the
\* string, or else up to the last newline it can stop in front of; 0: no match
MatchEnd(s, i) ==
    LET j == SkipWhitespace(s, i + 1)
        newlines == {k \in (i + 1)..(j - 1) : s[k].k = "nl"}
    IN IF j > Len(s) THEN Len(s)
       ELSE IF newlines = {} THEN 0
       ELSE (CHOOSE k \in newlines : \A q \in newlines : q <= k) - 1

\* One replace() of removeImportsExports: every match of the statement
\* regex is replaced by '', but an import match is put back when KeepsImport
RECURSIVE RemoveStatements(_, _, _)
RemoveStatements(s, i, kind) ==
    IF i > Len(s) THEN <<>>
    ELSE IF s[i].k = kind /\ AtLineStart(s, i) /\ MatchEnd(s, i) # 0
    THEN (IF kind = "import" /\ KeepsImport(s, i) THEN SubSeq(s, i, MatchEnd(s, i)) ELSE <<>>)
         \o RemoveStatements(s, MatchEnd(s, i) + 1, kind)
    ELSE <<s[i]>> \o RemoveStatements(s, i + 1, kind)

removeImportsExports(content) ==
    RemoveStatements(RemoveStatements(content, 1, "import"), 1, "export")

\* Index of the first --- at or after position i, 0 if none
RECURSIVE NextDashes(_, _)
NextDashes(s, i) ==
    IF i > Len(s) THEN 0
    ELSE IF s[i].k = "dashes" THEN i
    ELSE NextDashes(s, i + 1)

\* The first match of /^---[\s\S]*?---\n*/m: the first --- at the start of a
\* line that has another --- after it; <<first token, last token>> or <<>>
RECURSIVE FrontmatterMatch(_, _)
FrontmatterMatch(s, i) ==
    LET open == NextDashes(s, i)
        close == IF open = 0 THEN 0 ELSE NextDashes(s, open + 1)
    IN IF close = 0 THEN <<>>
       ELSE IF AtLineStart(s, open)
       THEN <<open, close + NewlineRun(s, close + 1)>>
       ELSE FrontmatterMatch(s, open + 1)

\* content.replace(/^---[\s\S]*?---\n*/m, '')
removeFrontmatter(content) ==
    LET m == FrontmatterMatch(content, 1)
    IN IF m = <<>> THEN content
       ELSE SubSeq(content, 1, m[1] - 1) \o SubSeq(content, m[2] + 1, Len(content))

\* One cleaning function is run on the document written so far
RunCleaner(result) ==
    /\ phase = "input"
    /\ nLines > 0
    /\ cleaned' = result
    /\ phase' = "done"
    /\ UNCHANGED <<doc, nLines, cfg, merged, sections, chunks, prevMax, prevCount>>
    /\ UNCHANGED <<cfVars, idVars, ctx, call, pc, out, history, nCalls, scVars>>

InitCleaner ==
    /\ doc = <<>> /\ nLines = 0 /\ phase = "input" /\ cfg = DEFAULT_CHUNK_CONFIG
    /\ merged = <<>> /\ sections = <<>> /\ chunks = <<>>
    /\ prevMax = 0 /\ prevCount = 0
    /\ CfIdle /\ IdIdle /\ OaIdle

\* ---- removeImportsExports

\* Lines of an MDX file: an import, an export, a code fence, prose, blank
ImportLines(i) ==
    { <<ImportStatement(ToString(i))>>, <<ExportStatement(ToString(i))>>,
      <<Fence>>, <<Text(10, ToString(i))>>, <<>> }

ImportsAppend ==
    /\ \E line \in ImportLines(nLines + 1) : AppendLine(line)
    /\ UNCHANGED <<cfVars, idVars, oaVars>>

RunImports == RunCleaner(removeImportsExports(doc))

NextImports == ImportsAppend \/ RunImports

SpecImports == InitCleaner /\ [][NextImports]_vars

\* Token i of s lies between an opening fence and its closing fence
InsideFence(s, i) == FenceCount(SubSeq(s, 1, i - 1)) % 2 = 1

\* The fenced code blocks of s, in order
CodeBlocks(s) == SelectSeq(splitByCodeBlocks(s), IsCodeBlock)

\* C16: in a text whose fences are paired, an import or export line is
\* removed if and only if it lies outside every fenced code block, and the
\* fenced code blocks come out unchanged.
C16_RemovedIffOutside ==
    (phase = "done" /\ FenceCount(doc) % 2 = 0) =>
        /\ \A i \in 1..Len(doc) :
              doc[i].k \in {"import", "export"} =>
                  (doc[i] \notin Tokens(cleaned) <=> ~InsideFence(doc, i))
        /\ CodeBlocks(cleaned) = CodeBlocks(doc)

\* ---- removeFrontmatter

\* Lines of a file with frontmatter: ---, a key or prose, a table row that
\* ends in ---, blank
FrontmatterLines(i) ==
    { <<Dashes>>, <<Text(10, ToString(i))>>, <<Text(4, ToString(i)), Dashes>>, <<>> }

FrontmatterAppend ==
    /\ \E line \in FrontmatterLines(nLines + 1) : AppendLine(line)
    /\ UNCHANGED <<cfVars, idVars, oaVars>>

RunFrontmatter == RunCleaner(removeFrontmatter(doc))

NextFrontmatter == FrontmatterAppend \/ RunFrontmatter

SpecFrontmatter == InitCleaner /\ [][NextFrontmatter]_vars

\* s begins at position 0 with a --- line that a later --- line closes
BeginsWithFrontmatter(s) ==
    /\ s # <<>> /\ s[1].k = "dashes"
    /\ Len(s) >= 2 /\ s[2].k = "nl"
    /\ \E j \in 3..Len(s) :
          s[j].k = "dashes" /\ s[j - 1].k = "nl" /\ (j = Len(s) \/ s[j + 1].k = "nl")

\* C17: removeFrontmatter changes its input only if the input begins at
\* position 0 with a well-formed --- ... --- block; every other input is
\* returned unchanged.
C17_OnlyLeadingBlock ==
    phase = "done" => (cleaned # doc => BeginsWithFrontmatter(doc))

\* ---- normalizeWhitespace

\* Lines with and without trailing spaces, blank lines with and without spaces
WhitespaceLines(i) ==
    { <<Text(10, ToString(i))>>, <<Text(10, ToString(i)), Space(1)>>, <<Space(2)>>, <<>> }

WhitespaceAppend ==
    /\ \E line \in WhitespaceLines(nLines + 1) : AppendLine(line)
    /\ UNCHANGED <<cfVars, idVars, oaVars>>

RunWhitespace == RunCleaner(normalizeWhitespace(doc))

NextWhitespace == WhitespaceAppend \/ RunWhitespace

SpecWhitespace == InitCleaner /\ [][NextWhitespace]_vars

\* s has a run of three or more newlines
HasLongNewlineRun(s) == \E i \in 1..Len(s) : NewlineRun(s, i) >= 3

\* A line of s ends in a space or a tab
HasTrailingSpace(s) ==
    \E i \in 1..Len(s) : s[i].k = "space" /\ (i = Len(s) \/ s[i + 1].k = "nl")

\* C18: the text normalizeWhitespace returns has no run of three or more
\* newlines and no line that ends in a space or a tab, and normalizeWhitespace
\* returns it unchanged.
C18_Normalized ==
    phase = "done" =>
        /\ ~HasLongNewlineRun(cleaned)
        /\ ~HasTrailingSpace(cleaned)
        /\ normalizeWhitespace(cleaned) = cleaned

-----------------------------------------------------------------------------
(* The merge engine on documents of three heading levels *)

\* What a document is written with: headings of level 1 and 2, sections of
\* level 2 and 3 below and above minChunkSize, a section headed
\* "Introduction", and prose.  A heading ends in the number of its line, so
\* that no two sections have the same heading.
CrumbBlocks(i) ==
    { <<Heading(1, "Top" \o ToString(i))>>, <<Heading(2, "Mid" \o ToString(i))>>,
      <<Heading(2, "Mid" \o ToString(i)), NL, Text(240, ToString(i))>>,
      <<Heading(3, "Sub" \o ToString(i)), NL, Text(1950, ToString(i))>>,
      <<Heading(3, "Sub" \o ToString(i)), NL, Text(50, ToString(i))>>,
      <<Heading(3, "Introduction"), NL, Text(50, ToString(i))>>,
      <<Text(130, ToString(i))>> }

CrumbAppend ==
    /\ \E block \in CrumbBlocks(nLines + 1) : AppendLine(block)
    /\ UNCHANGED <<cfVars, idVars, oaVars>>

NextCrumbs == CrumbAppend \/ RunMerge

SpecCrumbs == InitMerge /\ [][NextCrumbs]_vars

\* The headings of the proper ancestors of section i, outermost first
RECURSIVE AncestorHeadings(_, _)
AncestorHeadings(nodes, i) ==
    IF nodes[i].parent = 0 THEN <<>>
    ELSE Append(AncestorHeadings(nodes, nodes[i].parent), nodes[nodes[i].parent].heading)

\* The runs of two or more consecutive children of a section that make up fs
BatchRuns(fs, nodes) ==
    {r \in UNION {[p : {q}, a : 1..Len(Children(nodes, q)), b : 1..Len(Children(nodes, q))] :
                     q \in 1..Len(nodes)} :
        r.a < r.b /\ IsBatchOf(fs, nodes, Children(nodes, r.p), r.a, r.b)}

\* The sections the FlatSection fs was built from: the section whose own
\* content or whose flattened subtree it is, or the members of its batch
BuiltFrom(fs, nodes) ==
    {i \in 1..Len(nodes) :
        \/ /\ fs.heading = nodes[i].heading /\ fs.level = nodes[i].level
           /\ fs.content \in {nodes[i].content, flattenSection(nodes, i)}
        \/ \E r \in BatchRuns(fs, nodes) :
              \E m \in r.a..r.b : Children(nodes, r.p)[m] = i}

\* C23: the breadcrumbs of every emitted FlatSection are exactly the
\* headings of the proper ancestors of the sections it was built from,
\* outermost first (so never the own heading, the heading of a sibling or a
\* merged heading).
C23_AncestorsOnly ==
    phase = "done" =>
        LET nodes == parseIntoTree(doc)
        IN \A k \in 1..Len(merged) :
              /\ BuiltFrom(merged[k], nodes) # {}
              /\ \A i \in BuiltFrom(merged[k], nodes) :
                    merged[k].breadcrumbs = AncestorHeadings(nodes, i)

\* A merged batch and a section emitted on its own both lie two levels deep
C23_Witness ==
    /\ phase = "done"
    /\ \E k, l \in 1..Len(merged) :
          /\ merged[k].breadcrumbs = <<"Top1", "Mid2">> /\ merged[k].via = "batch"
          /\ BatchRuns(merged[k], parseIntoTree(doc)) # {}
          /\ merged[l].breadcrumbs = <<"Top1", "Mid2">> /\ merged[l].via = "leaf"

\* The headings of the children number a to b of section p
MemberHeadings(nodes, r) ==
    [m \in 1..(r.b - r.a + 1) |-> nodes[Children(nodes, r.p)[r.a + m - 1]].heading]

\* C24: the heading of a FlatSection merged from a batch of siblings is the
\* " / "-joined list of the member headings without the members headed
\* "Introduction", in order; "Introduction" is no component of it.
C24_IntroductionFiltered ==
    phase = "done" =>
        LET nodes == parseIntoTree(doc)
        IN \A k \in 1..Len(merged) : \A r \in BatchRuns(merged[k], nodes) :
              LET all == MemberHeadings(nodes, r)
                  kept == SelectSeq(all, LAMBDA h : h # "Introduction")
              IN /\ kept # <<>> => merged[k].heading = JoinHeadings(kept)
                 /\ kept # all => merged[k].heading # JoinHeadings(all)

\* The heading lines of a document, in order
HeadingLines(s) == SelectSeq(s, LAMBDA t : t.k = "head")

\* The sections of the tree that stand for a heading line, in the order in
\* which parseIntoTree created them
RECURSIVE HeadedNodes(_, _)
HeadedNodes(nodes, i) ==
    IF i > Len(nodes) THEN <<>>
    ELSE (IF nodes[i].level > 0 THEN <<i>> ELSE <<>>) \o HeadedNodes(nodes, i + 1)

\* C25: in the tree of parseIntoTree there is one section per heading line,
\* in document order; the section of a heading of level N is a child of the
\* section of the nearest preceding heading of a level below N, and a root
\* if there is none; an introduction comes before every other root.
C25_NearestLowerParent ==
    phase = "done" =>
        LET nodes == parseIntoTree(doc)
            heads == HeadingLines(doc)
            sect == HeadedNodes(nodes, 1)
        IN /\ Len(sect) = Len(heads)
           /\ \A k \in 1..Len(sect) :
                 LET lower == {m \in 1..(k - 1) : heads[m].n < heads[k].n}
                 IN /\ nodes[sect[k]].heading = heads[k].h
                    /\ nodes[sect[k]].level = heads[k].n
                    /\ nodes[sect[k]].parent =
                          IF lower = {} THEN 0
                          ELSE sect[CHOOSE m \in lower : \A q \in lower : q <= m]
           /\ \A i \in 1..Len(nodes) : nodes[i].level = 0 => (i = 1 /\ nodes[i].parent = 0)

\* A heading of level 2 follows a heading of level 3 and becomes a child of
\* the heading of level 1 before both, next to an earlier child of it
C25_Witness ==
    /\ phase = "done"
    /\ LET nodes == parseIntoTree(doc)
       IN \E i \in 3..Len(nodes) :
             /\ nodes[i].level = 2 /\ nodes[i - 1].level = 3
             /\ nodes[i].parent # 0 /\ nodes[i].parent < i - 2
             /\ Len(Children(nodes, nodes[i].parent)) >= 2

-----------------------------------------------------------------------------
(* The MDX driver on oversized sections and oversized numbered examples *)

\* A paragraph of n characters that ends in a JSX tag
TaggedParagraph(n, id) == <<Text(n, id), JsxTag>>

\* Blocks of the document: numbered examples (ordinary, oversized, oversized
\* with a tagged last paragraph) and regular sections (the same three)
FragmentBlocks(i) ==
    LET id == ToString(i)
        bodies == { <<Text(300, id)>>,
                    <<Text(1900, id), NL, NL, Text(300, id)>>,
                    <<Text(1900, id), NL, NL>> \o TaggedParagraph(240, id) }
    IN { <<NumberedHeading(i, "Ex"), NL>> \o b : b \in bodies }
       \cup { <<Heading(2, "R" \o id), NL>> \o b : b \in bodies }

FragmentAppend ==
    /\ phase = "input"
    /\ nLines < MaxExamples
    /\ \E b \in FragmentBlocks(nLines + 1) : doc' = doc \o <<NL, NL>> \o b
    /\ nLines' = nLines + 1
    /\ UNCHANGED <<cfg, phase, merged, sections, chunks, prevMax, prevCount,
                   cfVars, idVars, oaVars>>

NextFragments == FragmentAppend \/ RunExamples

SpecFragments == InitExamples /\ [][NextFragments]_vars


\* The headings of the fragments of a split section or example
FragmentHeadings ==
    LET bases == {"S: Ex"}
                 \cup UNION { {"R" \o ToString(j), "R" \o ToString(j) \o ": Ex"} :
                              j \in 1..MaxExamples }
    IN { b \o " (Part " \o ToString(i) \o ")" : b \in bases, i \in 1..3 }

\* C26: no fragment emitted for an oversized regular section or an oversized
\* numbered example has content shorter than minChunkSize
C26_NoShortFragment ==
    \A i \in 1..Len(chunks) :
        chunks[i].heading \in FragmentHeadings
            => StrLen(chunks[i].content) >= cfg.minChunkSize

-----------------------------------------------------------------------------
(* The markdown driver and the MDX driver on headings written with markup *)

\* Lines of the document: headings in bold, with a code span, with a link and
\* without markup, and text
MarkupLines(i) ==
    { <<Heading(1, "**Setup** guide")>>,
      <<Heading(2, "Use " \o Backtick \o "config" \o Backtick)>>,
      <<Heading(2, "See [Guide](g.md)")>>,
      <<Heading(2, "Usage")>>,
      <<Text(300, ToString(i))>>,
      <<Text(1950, ToString(i))>> }

MarkupAppend ==
    /\ \E line \in MarkupLines(nLines + 1) : AppendLine(line)
    /\ UNCHANGED <<cfVars, idVars, oaVars>>

NextHeadings == MarkupAppend \/ RunReadme \/ RunMdx

SpecHeadings == InitMdx /\ [][NextHeadings]_vars

Contains(heading, mark) == \E i \in 1..Len(heading) : At(heading, i, mark)

\* Bold or italic markers, a code-span marker, link syntax
HasMarkup(heading) ==
    \/ Contains(heading, "*")
    \/ Contains(heading, Backtick)
    \/ Contains(heading, "](")

\* C27: the heading of every chunk of the markdown driver and of the MDX
\* driver holds no bold or italic marker, no code-span marker and no link
\* syntax
C27_HeadingsCleaned ==
    \A i \in 1..Len(chunks) : ~HasMarkup(chunks[i].heading)

-----------------------------------------------------------------------------
(* markdown chunker: the migration strategy *)

MigrationMinChunkSize == 100
MinMigrationLength == 100

\* parseMigration up to, and including, the chunk records: the merge engine
\* runs with minChunkSize set to 100, sections of fewer than 100 characters
\* are filtered out of its result
parseMigration(content, contextName, config) ==
    LET tree == parseIntoTree(content)
        flat == mergeHierarchicalSections(tree,
                    [config EXCEPT !.minChunkSize = MigrationMinChunkSize])
        secs == SelectSeq(flat, LAMBDA s : StrLen(s.content) >= MinMigrationLength)
    IN [merged |-> flat, sections |-> secs,
        chunks |-> DocChunks(secs, contextName, "migration")]

RunMigration ==
    /\ phase = "input"
    /\ nLines > 0
    /\ LET r == parseMigration(doc, ContextName, cfg)
       IN /\ merged' = r.merged
          /\ sections' = r.sections
          /\ chunks' = r.chunks
    /\ phase' = "done"
    /\ UNCHANGED <<doc, nLines, cfg, prevMax, prevCount, cfVars, idVars, oaVars>>

NextMigration == MergeAppend \/ RunMigration

SpecMigration == InitMdx /\ [][NextMigration]_vars

\* C28: every FlatSection that the merge engine produces for a migration
\* guide becomes a chunk, in order; none is discarded for being short
C28_StepsKept ==
    phase = "done" =>
        /\ Len(chunks) = Len(merged)
        /\ \A i \in 1..Len(merged) : chunks[i].content = merged[i].content

-----------------------------------------------------------------------------
(* generateExample on an object schema *)

MaxProperties == 7

MaxExampleProperties == 5

\* One entry of schema.properties; required tells whether schema.required
\* names it
Property(i, schema, required) ==
    [name |-> "p" \o ToString(i), schema |-> schema, required |-> required]

\* generateExample on the schema of a property: 'string' for a string, null
\* (no value) for a type the switch does not know
PropertyExample(schema) ==
    IF schema.kind = "string" THEN <<"string">> ELSE <<>>

\* if (requiredFields.has(name) || count < 5)
Taken(required, count) == required \/ count < MaxExampleProperties

\* The loop over Object.entries(schema.properties): obj and count
RECURSIVE PropertiesLoop(_, _, _)
PropertiesLoop(properties, obj, count) ==
    IF properties = <<>> THEN obj
    ELSE LET p == Head(properties)
             val == PropertyExample(p.schema)
         IN IF Taken(p.required, count) /\ val # <<>>
            THEN PropertiesLoop(Tail(properties),
                     Append(obj, [name |-> p.name, value |-> val[1]]), count + 1)
            ELSE PropertiesLoop(Tail(properties), obj, count)

\* case 'object' of generateExample, for a schema with properties
ObjectExample(properties) == PropertiesLoop(properties, <<>>, 0)

InitProperties == MdIdle /\ CfIdle /\ IdIdle /\ OaIdle

PropertyAppend ==
    /\ walk = "off"
    /\ Len(schemas) < MaxProperties
    /\ \E schema \in {Scalar, NullSchema}, required \in BOOLEAN :
           schemas' = Append(schemas, Property(Len(schemas) + 1, schema, required))
    /\ UNCHANGED <<mdVars, cfVars, idVars, ctx, call, pc, out, history, nCalls,
                   callStack, walk, deepest, txVars>>

RunObjectExample ==
    /\ walk = "off"
    /\ schemas # <<>>
    /\ out' = ObjectExample(schemas)
    /\ walk' = "returned"
    /\ UNCHANGED <<mdVars, cfVars, idVars, ctx, call, pc, history, nCalls,
                   schemas, callStack, deepest, txVars>>

NextProperties == PropertyAppend \/ RunObjectExample

SpecProperties == InitProperties /\ [][NextProperties]_vars

\* C29: the example of an object schema holds at most 5 properties, whatever
\* the schema and however many of its properties are required
C29_AtMostFive ==
    walk = "returned" => Len(out) <= MaxExampleProperties

-----------------------------------------------------------------------------
(* The MDX driver on sections and fragments that are skipped *)

\* Blocks of the document: regular sections (too short to be kept, ordinary,
\* oversized, oversized with a last paragraph too short to be kept) and
\* numbered examples (ordinary, oversized with such a last paragraph)
IdBlocks(i) ==
    LET id == ToString(i)
    IN { <<Heading(2, "R" \o id), NL, Text(60, id)>>,
         <<Heading(2, "R" \o id), NL, Text(300, id)>>,
         <<Heading(2, "R" \o id), NL, Text(1950, id), NL, NL, Text(300, id)>>,
         <<Heading(2, "R" \o id), NL, Text(1950, id), NL, NL, Text(70, id)>>,
         <<NumberedHeading(i, "Ex"), NL, Text(300, id)>>,
         <<NumberedHeading(i, "Ex"), NL, Text(1950, id), NL, NL, Text(70, id)>> }

IdAppend ==
    /\ phase = "input"
    /\ nLines < MaxExamples
    /\ \E b \in IdBlocks(nLines + 1) : doc' = doc \o <<NL, NL>> \o b
    /\ nLines' = nLines + 1
    /\ UNCHANGED <<cfg, phase, merged, sections, chunks, prevMax, prevCount,
                   cfVars, idVars, oaVars>>

NextChunkIds == IdAppend \/ RunExamples

SpecChunkIds == InitExamples /\ [][NextChunkIds]_vars

\* C30: the ids of the n chunks of one document are slug#0, ..., slug#(n-1)
\* in the order of emission: sections and fragments that are skipped leave no
\* gap, and no index is used twice
C30_IdsContiguous ==
    \A i \in 1..Len(chunks) : chunks[i].id = MdxSlug \o "#" \o ToString(i - 1)


\* The paragraph t of the document is in the content of no chunk
Skipped(t) ==
    /\ \E j \in 1..Len(doc) : doc[j] = t
    /\ \A i \in 1..Len(chunks) : \A j \in 1..Len(chunks[i].content) :
           chunks[i].content[j] # t

\* A section too short to be kept and the last paragraph of an oversized
\* section were skipped, and a chunk was pushed for a later section
C30_Witness ==
    /\ phase = "done"
    /\ \E a \in 1..MaxExamples, b \in 1..MaxExamples, c \in 1..MaxExamples :
        /\ a < c /\ b < c
        /\ Skipped(Text(60, ToString(a)))
        /\ Skipped(Text(70, ToString(b)))
        /\ \E j \in 1..Len(chunks[Len(chunks)].content) :
               chunks[Len(chunks)].content[j] = Text(300, ToString(c))
        /\ chunks[Len(chunks)].id = MdxSlug \o "#" \o ToString(Len(chunks) - 1)

====
